---- MODULE Spec2Model ----
(***************************************************************************)
(* Drone dispatch backend (backend/index.js): the registry kept in db.json *)
(* (drones, deliveries, flights, flightHistory, nextOrderNumber) and the   *)
(* HTTP handlers that read it, change it and write it back.  Every handler *)
(* is synchronous (readFileSync ... writeFileSync) and runs to completion  *)
(* on Node's single thread, so a handler is one step: db' = Handler(db).   *)
(* A handler that returns before writeDB leaves db.json as it was.         *)
(***************************************************************************)
EXTENDS Integers, Sequences, FiniteSets, TLC

VARIABLES drones, deliveries, flights, flightHistory, nextOrderNumber, now,
          obstacles,
          inflight,     \* requests the server has received and not yet handled
          served,       \* requests handled so far, with their replies
          boot          \* the registry the server started on

vars == <<drones, deliveries, flights, flightHistory, nextOrderNumber, now, obstacles,
          inflight, served, boot>>

(***************************************************************************)
(* Bounds of the model.                                                    *)
(***************************************************************************)
MaxDrones == 1        \* longest drone list the requests build up
MaxDeliveries == 1    \* longest delivery list the requests build up
MaxOrder == 3         \* scheduling stops once nextOrderNumber reaches it
MaxFleet == 2         \* longest drone list of the registries SpecSched starts from
MaxRequests == 3      \* requests the server receives in SpecLoop
MaxStored == 2        \* longest flight list of the documents SpecBoot starts from

(***************************************************************************)
(* Request inputs.                                                         *)
(***************************************************************************)
NoValue == "undefined"               \* an absent / falsy string field
NoNumber == 0 - 1                    \* an absent numeric field (typeof undefined)

IdPool == <<"1", "2", "3", "4">>
DroneIds == {"d" \o IdPool[i] : i \in 1..MaxDrones}         \* ids of created drones
DeliveryIds == {"e" \o IdPool[i] : i \in 1..MaxDeliveries}  \* ids of created deliveries
UnknownId == "x0"                    \* an id no request ever creates
UnknownFlight == 0 - 2                \* a flight id no request ever creates
FleetIds == {"d1", "d2"}
ModelInputs == {"Phantom"}
MaxWeightInputs == {2, 10}
MaxRangeInputs == {50, 100}
BatteryInputs == {0, 20, 150}        \* 0 is falsy: POST /drones stores 100
WeightInputs == {0 - 5, 0, 3, 20}    \* 0 is falsy: POST /deliveries rejects it
PriorityInputs == {NoValue}
Times == {1, 2}                      \* readings of Date.now()

\* Coordinates.  All points lie on one meridian and are given by their arc
\* length from the equator in units of 1/DistScale km, so that haversineKm
\* of two points is the absolute difference of their coordinates.
DistScale == 10000
Routes == { [pickup |-> 0, dropoff |-> 100004],      \* 10.0004 km
            [pickup |-> 0, dropoff |-> 600006] }     \* 60.0006 km

ValidStatus == {"scheduled", "in_progress", "completed", "cancelled"}
StatusInputs == ValidStatus \cup {"bogus"}

(***************************************************************************)
(* Helpers for JavaScript arrays and numbers.                              *)
(***************************************************************************)
Min(a, b) == IF a <= b THEN a ELSE b
Max(a, b) == IF a >= b THEN a ELSE b
Abs(a) == IF a >= 0 THEN a ELSE 0 - a
CeilDiv(a, b) == (a + b - 1) \div b          \* Math.ceil(a / b), a >= 0, b > 0

\* IndexById falling back to the first element when no id matches
IndexByIdOrFirst(s, id) ==
    IF \E i \in 1..Len(s) : s[i].id = id
    THEN CHOOSE i \in 1..Len(s) : s[i].id = id /\ \A j \in 1..(i - 1) : s[j].id # id
    ELSE IF s # <<>> THEN 1 ELSE 0

\* Array.prototype.findIndex(x => x.id === id): 0 when there is none
IndexById(s, id) ==
    IF \E i \in 1..Len(s) : s[i].id = id
    THEN CHOOSE i \in 1..Len(s) : s[i].id = id /\ \A j \in 1..(i - 1) : s[j].id # id
    ELSE 0

\* flights.findIndex(f => f.deliveryId === id): 0 when there is none
IndexByDelivery(s, id) ==
    IF \E i \in 1..Len(s) : s[i].deliveryId = id
    THEN CHOOSE i \in 1..Len(s) :
            s[i].deliveryId = id /\ \A j \in 1..(i - 1) : s[j].deliveryId # id
    ELSE 0

\* Array.prototype.splice(i, 1): the array without its i-th element
RemoveAt(s, i) == SubSeq(s, 1, i - 1) \o SubSeq(s, i + 1, Len(s))

\* x || dflt for a number x (0 and undefined are falsy)
OrNum(x, dflt) == IF x = 0 \/ x = NoNumber THEN dflt ELSE x

\* x || dflt for a string x
OrStr(x, dflt) == IF x = NoValue THEN dflt ELSE x

DB == [drones |-> drones, deliveries |-> deliveries, flights |-> flights,
       flightHistory |-> flightHistory, nextOrderNumber |-> nextOrderNumber]

Reply(op, status, error) == [op |-> op, status |-> status, error |-> error]

\* `Ordem de servico ${n}`
DisplayId(n) == <<"Ordem de servico", n>>

(***************************************************************************)
(* Geometry and battery estimate.                                          *)
(***************************************************************************)
\* haversineKm(a, b) for two points of the meridian, in 1/DistScale km
haversineKm(a, b) == Abs(b - a)

\* Number(distanceKm.toFixed(3)): rounded to 1/1000 km
ToFixed3(dist) == (dist + 5) \div 10

\* Math.min(100, Math.ceil((distanceKm / dr.maxRangeKm) * 100 * 1.2))
RequiredBattery(dist, maxRangeKm) ==
    Min(100, CeilDiv(dist * 120, maxRangeKm * DistScale))

(***************************************************************************)
(* Request bodies.  A PUT body is the list of its keys in the order        *)
(* Object.keys yields them, each with its value.                           *)
(***************************************************************************)
DroneBodies ==
    [id : DroneIds \cup {NoValue}, model : ModelInputs,
     maxWeightKg : {10}, maxRangeKm : MaxRangeInputs,
     batteryPercent : {0, 150}]

\* the bodies that build the registries SpecSched starts from
FleetBodies ==
    [id : FleetIds, model : ModelInputs,
     maxWeightKg : MaxWeightInputs, maxRangeKm : MaxRangeInputs,
     batteryPercent : BatteryInputs]

DroneUpdateBodies ==
    { << <<"id", UnknownId>>, <<"batteryPercent", 100>> >> }

DeliveryBodies ==
    [id : DeliveryIds \cup {NoValue}, weightKg : WeightInputs,
     route : Routes, priority : PriorityInputs]

DeliveryUpdateBodies ==
    { << <<"status", "delivered">>, <<"weightKg", 3>> >> }

FlightUpdateBodies ==
    { << <<"status", st>> >> : st \in StatusInputs }
    \cup { << <<"scheduledAt", 0>>, <<"status", "bogus">> >> }

\* ApplyAllowed without the test of the key
RECURSIVE ApplyEveryKey(_, _, _)
ApplyEveryKey(o, body, allowed) ==
    IF body = <<>> THEN o
    ELSE ApplyEveryKey([o EXCEPT ![Head(body)[1]] = Head(body)[2]], Tail(body), allowed)

\* for (const k of Object.keys(body)) { if (!allowed.includes(k)) continue; o[k] = body[k] }
RECURSIVE ApplyAllowed(_, _, _)
ApplyAllowed(o, body, allowed) ==
    IF body = <<>> THEN o
    ELSE LET k == Head(body)[1]
             v == Head(body)[2]
         IN  ApplyAllowed(IF k \in allowed THEN [o EXCEPT ![k] = v] ELSE o,
                          Tail(body), allowed)

(***************************************************************************)
(* Drones.                                                                 *)
(***************************************************************************)
\* app.post('/drones')
CreateDrone(db, d) ==
    IF d.id = NoValue \/ d.model = NoValue
    THEN [db |-> db, res |-> Reply("createDrone", 400, "id and model required")]
    ELSE [db |-> [db EXCEPT !.drones =
                    Append(@, [d EXCEPT !.batteryPercent = OrNum(@, 100)])],
          res |-> Reply("createDrone", 201, "")]

\* app.put('/drones/:id')
UpdateDrone(db, id, body) ==
    LET existingIndex == IndexById(db.drones, id)
        allowed == {"model", "maxWeightKg", "maxRangeKm", "batteryPercent"}
    IN  IF existingIndex = 0
        THEN [db |-> db, res |-> Reply("updateDrone", 404, "Drone not found")]
        ELSE [db |-> [db EXCEPT !.drones[existingIndex] = ApplyAllowed(@, body, allowed)],
              res |-> Reply("updateDrone", 200, "")]

\* { ...f, removedAt: now, removedReason: `${why}:${id}` }
Archived(f, t, why, id) ==
    [id |-> f.id, deliveryId |-> f.deliveryId, droneId |-> f.droneId,
     distanceKm |-> f.distanceKm, requiredBattery |-> f.requiredBattery,
     status |-> f.status, scheduledAt |-> f.scheduledAt,
     orderNumber |-> f.orderNumber, displayId |-> f.displayId,
     removedAt |-> t, removedReason |-> <<why, id>>]

\* RevertDelivery without the test of the delivery's status
RevertDeliveryAlways(dels, deliveryId) ==
    LET di == IndexById(dels, deliveryId)
    IN  IF di # 0 THEN [dels EXCEPT ![di].status = "pending"] ELSE dels

\* RevertDelivery without the revert
RevertDeliveryNever(dels, deliveryId) == dels

\* if (di !== -1 && deliveries[di].status === 'in_transit') deliveries[di].status = 'pending'
RevertDelivery(dels, deliveryId) ==
    LET di == IndexById(dels, deliveryId)
    IN  IF di # 0 /\ dels[di].status = "in_transit"
        THEN [dels EXCEPT ![di].status = "pending"]
        ELSE dels

\* the loop of app.delete('/drones/:id') over flightsToArchive
RECURSIVE RevertAll(_, _)
RevertAll(dels, fs) ==
    IF fs = <<>> THEN dels
    ELSE RevertAll(RevertDelivery(dels, Head(fs).deliveryId), Tail(fs))

\* RemoveDrone without the filter that drops the drone's flights from db.flights
RemoveDroneKeepsFlights(db, id, t) ==
    LET existingIndex == IndexById(db.drones, id)
        OfDrone(f) == f.droneId = id
        flightsToArchive == SelectSeq(db.flights, OfDrone)
    IN  IF existingIndex = 0
        THEN [db |-> db, res |-> Reply("removeDrone", 404, "Drone not found")]
        ELSE [db |-> [db EXCEPT
                  !.drones = RemoveAt(@, existingIndex),
                  !.flightHistory = @ \o
                      [i \in 1..Len(flightsToArchive) |->
                          Archived(flightsToArchive[i], t, "drone-deleted", id)],
                  !.deliveries = RevertAll(@, flightsToArchive)],
              res |-> Reply("removeDrone", 200, "")]

\* app.delete('/drones/:id')
RemoveDrone(db, id, t) ==
    LET existingIndex == IndexById(db.drones, id)
        OfDrone(f) == f.droneId = id
        NotOfDrone(f) == f.droneId # id
        flightsToArchive == SelectSeq(db.flights, OfDrone)
    IN  IF existingIndex = 0
        THEN [db |-> db, res |-> Reply("removeDrone", 404, "Drone not found")]
        ELSE [db |-> [db EXCEPT
                  !.drones = RemoveAt(@, existingIndex),
                  !.flightHistory = @ \o
                      [i \in 1..Len(flightsToArchive) |->
                          Archived(flightsToArchive[i], t, "drone-deleted", id)],
                  !.deliveries = RevertAll(@, flightsToArchive),
                  !.flights = SelectSeq(@, NotOfDrone)],
              res |-> Reply("removeDrone", 200, "")]

(***************************************************************************)
(* Deliveries.                                                             *)
(***************************************************************************)
\* app.post('/deliveries')
CreateDelivery(db, d) ==
    IF d.id = NoValue \/ d.weightKg = 0
    THEN [db |-> db, res |-> Reply("createDelivery", 400, "missing fields")]
    ELSE [db |-> [db EXCEPT !.deliveries =
                    Append(@, [id |-> d.id, weightKg |-> d.weightKg,
                               pickup |-> d.route.pickup, dropoff |-> d.route.dropoff,
                               status |-> "pending",
                               priority |-> OrStr(d.priority, "normal")])],
          res |-> Reply("createDelivery", 201, "")]

\* UpdateDelivery without the test of the delivery's status
UpdateDeliveryAnyStatus(db, id, body) ==
    LET idx == IndexById(db.deliveries, id)
        allowed == {"weightKg", "pickup", "dropoff", "priority"}
    IN  IF idx = 0
        THEN [db |-> db, res |-> Reply("updateDelivery", 404, "Delivery not found")]
        ELSE [db |-> [db EXCEPT !.deliveries[idx] = ApplyAllowed(@, body, allowed)],
              res |-> Reply("updateDelivery", 200, "")]

\* app.put('/deliveries/:id')
UpdateDelivery(db, id, body) ==
    LET idx == IndexById(db.deliveries, id)
        allowed == {"weightKg", "pickup", "dropoff", "priority"}
    IN  IF idx = 0
        THEN [db |-> db, res |-> Reply("updateDelivery", 404, "Delivery not found")]
        ELSE IF db.deliveries[idx].status # "pending"
        THEN [db |-> db,
              res |-> Reply("updateDelivery", 400, "Only pending deliveries can be edited")]
        ELSE [db |-> [db EXCEPT !.deliveries[idx] = ApplyAllowed(@, body, allowed)],
              res |-> Reply("updateDelivery", 200, "")]

\* RemoveDelivery without the search for a flight of the delivery
RemoveDeliveryIgnoresFlights(db, id) ==
    LET idx == IndexById(db.deliveries, id)
    IN  IF idx = 0
        THEN [db |-> db, res |-> Reply("removeDelivery", 404, "Delivery not found")]
        ELSE IF db.deliveries[idx].status # "pending"
        THEN [db |-> db,
              res |-> Reply("removeDelivery", 400, "Only pending deliveries can be removed")]
        ELSE [db |-> [db EXCEPT !.deliveries = RemoveAt(@, idx)],
              res |-> Reply("removeDelivery", 200, "")]

\* app.delete('/deliveries/:id')
RemoveDelivery(db, id) ==
    LET idx == IndexById(db.deliveries, id)
    IN  IF idx = 0
        THEN [db |-> db, res |-> Reply("removeDelivery", 404, "Delivery not found")]
        ELSE IF db.deliveries[idx].status # "pending"
        THEN [db |-> db,
              res |-> Reply("removeDelivery", 400, "Only pending deliveries can be removed")]
        ELSE IF IndexByDelivery(db.flights, id) # 0
        THEN [db |-> db,
              res |-> Reply("removeDelivery", 400, "Cannot remove delivery with active flight")]
        ELSE [db |-> [db EXCEPT !.deliveries = RemoveAt(@, idx)],
              res |-> Reply("removeDelivery", 200, "")]

(***************************************************************************)
(* Scheduling: app.post('/flights').                                       *)
(***************************************************************************)
\* Candidates without the filter on maxWeightKg
CandidatesAll(drs, delivery) == drs

\* db.drones.filter((dr) => dr.maxWeightKg >= delivery.weightKg)
Candidates(drs, delivery) ==
    LET Carries(dr) == dr.maxWeightKg >= delivery.weightKg
    IN  SelectSeq(drs, Carries)

\* the object built by .map((dr) => ...) for one candidate
Evaluate(dr, distanceKm) ==
    LET requiredBattery == RequiredBattery(distanceKm, dr.maxRangeKm)
    IN  [dr |-> dr,
         withinRange |-> distanceKm <= dr.maxRangeKm * DistScale,
         requiredBattery |-> requiredBattery,
         hasBattery |-> dr.batteryPercent >= requiredBattery]

\* candidates.map(...).filter((x) => x.withinRange && x.hasBattery)
Feasible(candidates, distanceKm) ==
    LET Ok(x) == x.withinRange /\ x.hasBattery
    IN  SelectSeq([i \in 1..Len(candidates) |-> Evaluate(candidates[i], distanceKm)], Ok)

\* dr.batteryPercent - requiredBattery of a feasible candidate
Residual(x) == x.dr.batteryPercent - x.requiredBattery

\* SortByResidual with the comparison reversed: (a, b) => residual(a) - residual(b)
RECURSIVE SortByResidualAscending(_)
SortByResidualAscending(s) ==
    IF s = <<>> THEN <<>>
    ELSE LET i == CHOOSE k \in 1..Len(s) :
                    /\ \A j \in 1..Len(s) : Residual(s[j]) >= Residual(s[k])
                    /\ \A j \in 1..(k - 1) : Residual(s[j]) > Residual(s[k])
         IN  <<s[i]>> \o SortByResidualAscending(RemoveAt(s, i))

\* feasible.sort((a, b) => residual(b) - residual(a)): descending, and stable
\* (Array.prototype.sort keeps the order of elements that compare equal)
RECURSIVE SortByResidual(_)
SortByResidual(s) ==
    IF s = <<>> THEN <<>>
    ELSE LET i == CHOOSE k \in 1..Len(s) :
                    /\ \A j \in 1..Len(s) : Residual(s[j]) <= Residual(s[k])
                    /\ \A j \in 1..(k - 1) : Residual(s[j]) < Residual(s[k])
         IN  <<s[i]>> \o SortByResidual(RemoveAt(s, i))

\* Math.max(0, batteryPercent - requiredBattery)
Debit(batteryPercent, requiredBattery) == Max(0, batteryPercent - requiredBattery)

\* Credit without the cap
CreditUncapped(batteryPercent, requiredBattery) == batteryPercent + requiredBattery

\* Math.min(100, (batteryPercent || 0) + requiredBattery)
Credit(batteryPercent, requiredBattery) == Min(100, batteryPercent + requiredBattery)

\* the flight object literal
NewFlight(db, delivery, chosen, distanceKm, t) ==
    [id |-> t, deliveryId |-> delivery.id, droneId |-> chosen.dr.id,
     distanceKm |-> ToFixed3(distanceKm),
     requiredBattery |-> chosen.requiredBattery,
     status |-> "scheduled", scheduledAt |-> t,
     orderNumber |-> OrNum(db.nextOrderNumber, 1),
     displayId |-> DisplayId(OrNum(db.nextOrderNumber, 1))]

\* BumpOrder without the increment
BumpOrderStuck(n) == IF n = NoNumber THEN 1 ELSE n

\* if (typeof db.nextOrderNumber === 'undefined') db.nextOrderNumber = 1;
\* db.nextOrderNumber = db.nextOrderNumber + 1
BumpOrder(n) == (IF n = NoNumber THEN 1 ELSE n) + 1

\* the writes of a successful POST /flights
CommitFlight(db, delivery, chosen, flight) ==
    LET droneIndex == IndexById(db.drones, chosen.dr.id)
        deliveryIndex == IndexById(db.deliveries, delivery.id)
    IN  [db EXCEPT
            !.drones[droneIndex].batteryPercent = Debit(@, chosen.requiredBattery),
            !.deliveries[deliveryIndex].status = "in_transit",
            !.flights = Append(@, flight),
            !.nextOrderNumber = BumpOrder(@)]

\* ScheduleFail after the order number was already taken from the counter
ScheduleFailCounted(db, status, error) ==
    [db |-> [db EXCEPT !.nextOrderNumber = BumpOrder(@)],
     res |-> Reply("scheduleFlight", status, error)]

\* an early return of the handler: db.json is not written
ScheduleFail(db, status, error) ==
    [db |-> db, res |-> Reply("scheduleFlight", status, error)]

\* DeliveryCheck without the test of the delivery's status
DeliveryCheckAnyStatus(db, deliveryId) ==
    LET di == IndexById(db.deliveries, deliveryId)
    IN  IF deliveryId = NoValue THEN <<400, "deliveryId required">>
        ELSE IF di = 0 THEN <<404, "Delivery not found">>
        ELSE <<0, "">>

\* the checks on req.body.deliveryId: <<HTTP status, error>>, <<0, "">> if it passes
DeliveryCheck(db, deliveryId) ==
    LET di == IndexById(db.deliveries, deliveryId)
    IN  IF deliveryId = NoValue THEN <<400, "deliveryId required">>
        ELSE IF di = 0 THEN <<404, "Delivery not found">>
        ELSE IF db.deliveries[di].status # "pending" THEN <<400, "Delivery not pending">>
        ELSE <<0, "">>

ScheduleFlight(db, deliveryId, t) ==
    LET check == DeliveryCheck(db, deliveryId)
        delivery == db.deliveries[IndexById(db.deliveries, deliveryId)]
        candidates == Candidates(db.drones, delivery)
        distanceKm == haversineKm(delivery.pickup, delivery.dropoff)
        feasible == Feasible(candidates, distanceKm)
        chosen == SortByResidual(feasible)[1]
        flight == NewFlight(db, delivery, chosen, distanceKm, t)
    IN  IF check[1] # 0 THEN ScheduleFail(db, check[1], check[2])
        ELSE IF candidates = <<>>
        THEN ScheduleFail(db, 400, "No drone can carry this weight")
        ELSE IF feasible = <<>>
        THEN ScheduleFail(db, 400, "No feasible drone available (range/battery)")
        ELSE [db |-> CommitFlight(db, delivery, chosen, flight),
              res |-> Reply("scheduleFlight", 201, "")]

(***************************************************************************)
(* Flight updates: app.put('/flights/:id').                                *)
(***************************************************************************)
\* refund of the drone's battery; nothing if the drone is gone
Refund(drs, droneId, requiredBattery) ==
    LET di == IndexById(drs, droneId)
    IN  IF di = 0 THEN drs
        ELSE [drs EXCEPT ![di].batteryPercent = Credit(@, requiredBattery)]

\* MarkDelivered without the write of the delivery's status
MarkDeliveredNever(dels, deliveryId) == dels

\* if (deli !== -1) deliveries[deli].status = 'delivered'
MarkDelivered(dels, deliveryId) ==
    LET deli == IndexById(dels, deliveryId)
    IN  IF deli = 0 THEN dels ELSE [dels EXCEPT ![deli].status = "delivered"]

\* SetStatus without the test prev !== 'cancelled'
SetStatusRefundsAgain(st, newStatus) ==
    LET flight == st.flight
        db1 == IF newStatus = "cancelled"
               THEN [st.db EXCEPT
                       !.drones = Refund(@, flight.droneId, flight.requiredBattery),
                       !.deliveries = RevertDelivery(@, flight.deliveryId)]
               ELSE st.db
        db2 == IF newStatus = "completed"
               THEN [db1 EXCEPT !.deliveries = MarkDelivered(@, flight.deliveryId)]
               ELSE db1
    IN  [st EXCEPT !.db = db2, !.flight.status = newStatus]

\* the body of the status branch, for a valid newStatus
SetStatus(st, newStatus) ==
    LET flight == st.flight
        prev == flight.status
        db1 == IF newStatus = "cancelled" /\ prev # "cancelled"
               THEN [st.db EXCEPT
                       !.drones = Refund(@, flight.droneId, flight.requiredBattery),
                       !.deliveries = RevertDelivery(@, flight.deliveryId)]
               ELSE st.db
        db2 == IF newStatus = "completed"
               THEN [db1 EXCEPT !.deliveries = MarkDelivered(@, flight.deliveryId)]
               ELSE db1
    IN  [st EXCEPT !.db = db2, !.flight.status = newStatus]

\* ApplyFlightKeys without the validation of the new status
RECURSIVE ApplyFlightKeysUnchecked(_, _)
ApplyFlightKeysUnchecked(st, body) ==
    IF body = <<>> THEN st
    ELSE LET k == Head(body)[1]
             v == Head(body)[2]
         IN  IF k \notin {"status", "scheduledAt"}
             THEN ApplyFlightKeysUnchecked(st, Tail(body))
             ELSE IF k = "status"
             THEN ApplyFlightKeysUnchecked(SetStatus(st, v), Tail(body))
             ELSE ApplyFlightKeysUnchecked([st EXCEPT !.flight.scheduledAt = v], Tail(body))

\* the loop over Object.keys(body); st.invalid marks the early 400 return
RECURSIVE ApplyFlightKeys(_, _)
ApplyFlightKeys(st, body) ==
    IF body = <<>> THEN st
    ELSE LET k == Head(body)[1]
             v == Head(body)[2]
         IN  IF k \notin {"status", "scheduledAt"} THEN ApplyFlightKeys(st, Tail(body))
             ELSE IF k = "status"
             THEN IF v \notin ValidStatus THEN [st EXCEPT !.invalid = TRUE]
                  ELSE ApplyFlightKeys(SetStatus(st, v), Tail(body))
             ELSE ApplyFlightKeys([st EXCEPT !.flight.scheduledAt = v], Tail(body))

\* UpdateFlight writing what the loop had applied before the invalid status
UpdateFlightWritesPartial(db, id, body) ==
    LET idx == IndexById(db.flights, id)
        st == ApplyFlightKeys([db |-> db, flight |-> db.flights[idx], invalid |-> FALSE],
                              body)
    IN  IF idx = 0
        THEN [db |-> db, res |-> Reply("updateFlight", 404, "Flight not found")]
        ELSE IF st.invalid
        THEN [db |-> [st.db EXCEPT !.flights[idx] = st.flight],
              res |-> Reply("updateFlight", 400, "Invalid status")]
        ELSE [db |-> [st.db EXCEPT !.flights[idx] = st.flight],
              res |-> Reply("updateFlight", 200, "")]

UpdateFlight(db, id, body) ==
    LET idx == IndexById(db.flights, id)
        st == ApplyFlightKeys([db |-> db, flight |-> db.flights[idx], invalid |-> FALSE],
                              body)
    IN  IF idx = 0
        THEN [db |-> db, res |-> Reply("updateFlight", 404, "Flight not found")]
        ELSE IF st.invalid
        THEN [db |-> db, res |-> Reply("updateFlight", 400, "Invalid status")]
        ELSE [db |-> [st.db EXCEPT !.flights[idx] = st.flight],
              res |-> Reply("updateFlight", 200, "")]

(***************************************************************************)
(* Removal and cancellation.                                               *)
(***************************************************************************)
\* RemoveFlight without the push to db.flightHistory
RemoveFlightNoArchive(db, id, t) ==
    LET idx == IndexById(db.flights, id)
        flight == db.flights[idx]
    IN  IF idx = 0
        THEN [db |-> db, res |-> Reply("removeFlight", 404, "Flight not found")]
        ELSE [db |-> [db EXCEPT
                  !.flights = RemoveAt(@, idx),
                  !.deliveries = RevertDelivery(@, flight.deliveryId),
                  !.drones = Refund(@, flight.droneId, flight.requiredBattery)],
              res |-> Reply("removeFlight", 200, "")]

\* app.delete('/flights/:id')
RemoveFlight(db, id, t) ==
    LET idx == IndexById(db.flights, id)
        flight == db.flights[idx]
    IN  IF idx = 0
        THEN [db |-> db, res |-> Reply("removeFlight", 404, "Flight not found")]
        ELSE [db |-> [db EXCEPT
                  !.flights = RemoveAt(@, idx),
                  !.flightHistory = Append(@, Archived(flight, t, "manual-delete", id)),
                  !.deliveries = RevertDelivery(@, flight.deliveryId),
                  !.drones = Refund(@, flight.droneId, flight.requiredBattery)],
              res |-> Reply("removeFlight", 200, "")]

\* CancelDelivery without the test for a delivery that is already cancelled
CancelDeliveryAgain(db, id, t) ==
    LET di == IndexById(db.deliveries, id)
        fi == IndexByDelivery(db.flights, id)
        flight == db.flights[fi]
        db1 == IF fi = 0 THEN db
               ELSE [db EXCEPT
                       !.flights = RemoveAt(@, fi),
                       !.flightHistory =
                           Append(@, Archived(flight, t, "delivery-cancelled", id)),
                       !.drones = Refund(@, flight.droneId, flight.requiredBattery)]
    IN  IF di = 0
        THEN [db |-> db, res |-> Reply("cancelDelivery", 404, "Delivery not found")]
        ELSE [db |-> [db1 EXCEPT !.deliveries[di].status = "cancelled"],
              res |-> Reply("cancelDelivery", 200, "")]

\* app.post('/deliveries/:id/cancel')
CancelDelivery(db, id, t) ==
    LET di == IndexById(db.deliveries, id)
        fi == IndexByDelivery(db.flights, id)
        flight == db.flights[fi]
        db1 == IF fi = 0 THEN db
               ELSE [db EXCEPT
                       !.flights = RemoveAt(@, fi),
                       !.flightHistory =
                           Append(@, Archived(flight, t, "delivery-cancelled", id)),
                       !.drones = Refund(@, flight.droneId, flight.requiredBattery)]
    IN  IF di = 0
        THEN [db |-> db, res |-> Reply("cancelDelivery", 404, "Delivery not found")]
        ELSE IF db.deliveries[di].status = "cancelled"
        THEN [db |-> db, res |-> Reply("cancelDelivery", 400, "Delivery already cancelled")]
        ELSE [db |-> [db1 EXCEPT !.deliveries[di].status = "cancelled"],
              res |-> Reply("cancelDelivery", 200, "")]

(***************************************************************************)
(* advanceFlight: POST /flights/:id/advance.  The handler is exercised by  *)
(* backend/test.js but is not part of backend/index.js; it is modelled     *)
(* from the specification of the flight state machine.  Drones carry no    *)
(* state or position in index.js, so only the statuses are modelled.       *)
(***************************************************************************)
\* AdvanceFlight completing a flight without the write of the delivery
AdvanceFlightNoDelivery(db, id) ==
    LET idx == IndexById(db.flights, id)
        flight == db.flights[idx]
    IN  IF idx = 0
        THEN [db |-> db, res |-> Reply("advanceFlight", 404, "Flight not found")]
        ELSE IF flight.status = "scheduled"
        THEN [db |-> [db EXCEPT !.flights[idx].status = "in_progress"],
              res |-> Reply("advanceFlight", 200, "")]
        ELSE IF flight.status = "in_progress"
        THEN [db |-> [db EXCEPT !.flights[idx].status = "completed"],
              res |-> Reply("advanceFlight", 200, "")]
        ELSE [db |-> db, res |-> Reply("advanceFlight", 400, "InvalidTransition")]

AdvanceFlight(db, id) ==
    LET idx == IndexById(db.flights, id)
        flight == db.flights[idx]
    IN  IF idx = 0
        THEN [db |-> db, res |-> Reply("advanceFlight", 404, "Flight not found")]
        ELSE IF flight.status = "scheduled"
        THEN [db |-> [db EXCEPT !.flights[idx].status = "in_progress"],
              res |-> Reply("advanceFlight", 200, "")]
        ELSE IF flight.status = "in_progress"
        THEN [db |-> [db EXCEPT !.flights[idx].status = "completed",
                                !.deliveries = MarkDelivered(@, flight.deliveryId)],
              res |-> Reply("advanceFlight", 200, "")]
        ELSE [db |-> db, res |-> Reply("advanceFlight", 400, "InvalidTransition")]

(***************************************************************************)
(* Simulation clock: the loop that recharges idle drones every 5 seconds.  *)
(* It is exercised by backend/test.js (testarRecargaAutomatica) and        *)
(* described in the README but is not part of backend/index.js; it is      *)
(* modelled from the specification.  index.js stores no drone state, so a  *)
(* drone counts as idle when no scheduled or in-progress flight of the     *)
(* active collection is assigned to it (scheduling makes a drone loading,  *)
(* the first advance in_flight, completion idle again).                    *)
(***************************************************************************)
RechargeStep == 5

DroneIdle(fs, droneId) ==
    \A i \in 1..Len(fs) :
        fs[i].droneId = droneId => fs[i].status \notin {"scheduled", "in_progress"}

\* Recharge without the cap at 100
RechargeUncapped(drs, fs) ==
    [i \in 1..Len(drs) |->
        IF DroneIdle(fs, drs[i].id) /\ drs[i].batteryPercent < 100
        THEN [drs[i] EXCEPT !.batteryPercent = @ + RechargeStep]
        ELSE drs[i]]

\* one firing of the clock over db.drones
Recharge(drs, fs) ==
    [i \in 1..Len(drs) |->
        IF DroneIdle(fs, drs[i].id) /\ drs[i].batteryPercent < 100
        THEN [drs[i] EXCEPT !.batteryPercent = Min(100, @ + RechargeStep)]
        ELSE drs[i]]

(***************************************************************************)
(* Startup migration of the persisted document.                            *)
(***************************************************************************)
\* maxOrder over the flights that carry a numeric orderNumber
RECURSIVE MaxOrderOf(_, _)
MaxOrderOf(fs, maxOrder) ==
    IF fs = <<>> THEN maxOrder
    ELSE MaxOrderOf(Tail(fs),
                    IF Head(fs).orderNumber # NoNumber
                    THEN Max(maxOrder, Head(fs).orderNumber) ELSE maxOrder)

\* BumpToMax without the comparison with maxOrder
BumpToMaxNever(n, maxOrder) == n

\* if (db0.nextOrderNumber <= maxOrder) db0.nextOrderNumber = maxOrder + 1
BumpToMax(n, maxOrder) == IF n <= maxOrder THEN maxOrder + 1 ELSE n

\* one of the two migration loops: m = [list, next]
RECURSIVE MigrateList(_, _, _)
MigrateList(fs, done, next) ==
    IF fs = <<>> THEN [list |-> done, next |-> next]
    ELSE LET f == Head(fs)
         IN  IF f.orderNumber = NoNumber
             THEN MigrateList(Tail(fs),
                      Append(done, [f EXCEPT !.orderNumber = next,
                                             !.displayId = DisplayId(next)]),
                      next + 1)
             ELSE IF f.displayId = <<>>
             THEN MigrateList(Tail(fs),
                      Append(done, [f EXCEPT !.displayId = DisplayId(f.orderNumber)]),
                      next)
             ELSE MigrateList(Tail(fs), Append(done, f), next)

\* the try block that runs before app.listen
Migrate(db0) ==
    LET n0 == IF db0.nextOrderNumber = NoNumber THEN 1 ELSE db0.nextOrderNumber
        maxOrder == MaxOrderOf(db0.flights \o db0.flightHistory, 0)
        n1 == BumpToMax(n0, maxOrder)
        m1 == MigrateList(db0.flights, <<>>, n1)
        m2 == MigrateList(db0.flightHistory, <<>>, m1.next)
    IN  [db0 EXCEPT !.flights = m1.list, !.flightHistory = m2.list,
                    !.nextOrderNumber = m2.next]

\* db.json as found at startup: a fresh file; a file whose only flight
\* carries order number 1 while the stored counter is stale; and a file written
\* before order numbers existed, with one flight removed since (created at
\* time 0) and one active (created at time 1).  An absent flightHistory reads
\* as the empty list everywhere (db.flightHistory || []).
FreshDoc ==
    [drones |-> <<>>, deliveries |-> <<>>, flights |-> <<>>, flightHistory |-> <<>>,
     nextOrderNumber |-> NoNumber]

LegacyDoc ==
    [drones |-> << [id |-> "d1", model |-> "Phantom", maxWeightKg |-> 10,
                    maxRangeKm |-> 100, batteryPercent |-> 87] >>,
     deliveries |-> << [id |-> "e1", weightKg |-> 3, pickup |-> 0, dropoff |-> 100004,
                        status |-> "in_transit", priority |-> "normal"] >>,
     flights |-> << [id |-> 1, deliveryId |-> "e1", droneId |-> "d1",
                     distanceKm |-> 10000, requiredBattery |-> 13,
                     status |-> "scheduled", scheduledAt |-> 1,
                     orderNumber |-> 1, displayId |-> <<>>] >>,
     flightHistory |-> <<>>,
     nextOrderNumber |-> 1]

UnnumberedDoc ==
    [drones |-> << [id |-> "d1", model |-> "Phantom", maxWeightKg |-> 10,
                    maxRangeKm |-> 100, batteryPercent |-> 87] >>,
     deliveries |-> << [id |-> "e1", weightKg |-> 3, pickup |-> 0, dropoff |-> 100004,
                        status |-> "in_transit", priority |-> "normal"] >>,
     flights |-> << [id |-> 1, deliveryId |-> "e1", droneId |-> "d1",
                     distanceKm |-> 10000, requiredBattery |-> 13,
                     status |-> "scheduled", scheduledAt |-> 1,
                     orderNumber |-> NoNumber, displayId |-> <<>>] >>,
     flightHistory |-> << [id |-> 0, deliveryId |-> "e1", droneId |-> "d1",
                           distanceKm |-> 10000, requiredBattery |-> 13,
                           status |-> "scheduled", scheduledAt |-> 0,
                           orderNumber |-> NoNumber, displayId |-> <<>>,
                           removedAt |-> 0, removedReason |-> <<"manual-delete", 0>>] >>,
     nextOrderNumber |-> NoNumber]

PersistedDocs == {FreshDoc, LegacyDoc, UnnumberedDoc}

(***************************************************************************)
(* The state machine.  Each set of outcomes holds, for one handler, what   *)
(* it makes of the present registry for every request of the model: the    *)
(* registry it writes (r.db) and the reply it sends (r.res).               *)
(***************************************************************************)
Init ==
    /\ \E doc \in PersistedDocs :
          LET db == Migrate(doc)
          IN  /\ drones = db.drones
              /\ deliveries = db.deliveries
              /\ flights = db.flights
              /\ flightHistory = db.flightHistory
              /\ nextOrderNumber = db.nextOrderNumber
    /\ now = 1
    /\ obstacles = <<>>
    /\ inflight = <<>>
    /\ served = <<>>
    /\ boot = Migrate(FreshDoc)

\* writeDB(db): the registry a request leaves behind.  The reply r.res goes
\* to the client and is no part of the state.
Respond(r) ==
    /\ drones' = r.db.drones
    /\ deliveries' = r.db.deliveries
    /\ flights' = r.db.flights
    /\ flightHistory' = r.db.flightHistory
    /\ nextOrderNumber' = r.db.nextOrderNumber
    /\ now' = now
    /\ obstacles' = obstacles
    /\ UNCHANGED <<inflight, served, boot>>

DroneIdInputs == DroneIds \cup {UnknownId}
DeliveryIdInputs == DeliveryIds \cup {UnknownId}
FlightIdInputs == {flights[i].id : i \in 1..Len(flights)} \cup {UnknownFlight}

CreateDroneOutcomes == {CreateDrone(DB, d) : d \in DroneBodies}
UpdateDroneOutcomes ==
    {UpdateDrone(DB, id, body) : id \in DroneIdInputs, body \in DroneUpdateBodies}
RemoveDroneOutcomes == {RemoveDrone(DB, id, now) : id \in DroneIdInputs}
CreateDeliveryOutcomes == {CreateDelivery(DB, d) : d \in DeliveryBodies}
UpdateDeliveryOutcomes ==
    {UpdateDelivery(DB, id, body) : id \in DeliveryIdInputs, body \in DeliveryUpdateBodies}
RemoveDeliveryOutcomes == {RemoveDelivery(DB, id) : id \in DeliveryIdInputs}
CancelDeliveryOutcomes == {CancelDelivery(DB, id, now) : id \in DeliveryIdInputs}
ScheduleFlightOutcomes ==
    {ScheduleFlight(DB, id, now) : id \in DeliveryIdInputs \cup {NoValue}}
UpdateFlightOutcomes ==
    {UpdateFlight(DB, id, body) : id \in FlightIdInputs, body \in FlightUpdateBodies}
AdvanceFlightOutcomes == {AdvanceFlight(DB, id) : id \in FlightIdInputs}
RemoveFlightOutcomes == {RemoveFlight(DB, id, now) : id \in FlightIdInputs}

\* what any one request makes of the present registry
Outcomes ==
    CreateDroneOutcomes \cup UpdateDroneOutcomes \cup RemoveDroneOutcomes
    \cup CreateDeliveryOutcomes \cup UpdateDeliveryOutcomes \cup RemoveDeliveryOutcomes
    \cup CancelDeliveryOutcomes \cup ScheduleFlightOutcomes \cup UpdateFlightOutcomes
    \cup AdvanceFlightOutcomes \cup RemoveFlightOutcomes

DoCreateDrone ==
    /\ Len(drones) < MaxDrones
    /\ \E r \in CreateDroneOutcomes : Respond(r)

DoUpdateDrone == \E r \in UpdateDroneOutcomes : Respond(r)

DoRemoveDrone == \E r \in RemoveDroneOutcomes : Respond(r)

DoCreateDelivery ==
    /\ Len(deliveries) < MaxDeliveries
    /\ \E r \in CreateDeliveryOutcomes : Respond(r)

DoUpdateDelivery == \E r \in UpdateDeliveryOutcomes : Respond(r)

DoRemoveDelivery == \E r \in RemoveDeliveryOutcomes : Respond(r)

DoCancelDelivery == \E r \in CancelDeliveryOutcomes : Respond(r)

DoScheduleFlight ==
    /\ nextOrderNumber < MaxOrder
    /\ \E r \in ScheduleFlightOutcomes : Respond(r)

DoUpdateFlight == \E r \in UpdateFlightOutcomes : Respond(r)

DoAdvanceFlight == \E r \in AdvanceFlightOutcomes : Respond(r)

DoRemoveFlight == \E r \in RemoveFlightOutcomes : Respond(r)

\* a millisecond passes
Tick ==
    /\ now + 1 \in Times
    /\ now' = now + 1
    /\ UNCHANGED <<drones, deliveries, flights, flightHistory, nextOrderNumber, obstacles>>
    /\ UNCHANGED <<inflight, served, boot>>

Next ==
    \/ DoCreateDrone
    \/ DoUpdateDrone
    \/ DoRemoveDrone
    \/ DoCreateDelivery
    \/ DoUpdateDelivery
    \/ DoRemoveDelivery
    \/ DoCancelDelivery
    \/ DoScheduleFlight
    \/ DoUpdateFlight
    \/ DoAdvanceFlight
    \/ DoRemoveFlight
    \/ Tick

Spec == Init /\ [][Next]_vars

(***************************************************************************)
(* Scheduling seen alone: the registries that POST /drones and             *)
(* POST /deliveries build on a fresh db.json, and POST /flights on them.   *)
(***************************************************************************)
EmptyDB == Migrate(FreshDoc)

\* the registries made by up to n POST /drones on db
RECURSIVE WithDrones(_, _)
WithDrones(dbs, n) ==
    IF n = 0 THEN dbs
    ELSE dbs \cup WithDrones({CreateDrone(db, d).db : db \in dbs, d \in FleetBodies}, n - 1)

\* db.obstacles as db.json may hold it: no obstacle, one circle of radius 1 km
\* centred 5 km along the routes, or one centred 90 km away, beyond them.
\* No route of index.js reads or writes the list.
ObstacleLists ==
    { <<>>,
      << [id |-> "o1", type |-> "circle", lat |-> 50000, radiusKm |-> 1] >>,
      << [id |-> "o2", type |-> "circle", lat |-> 900000, radiusKm |-> 1] >> }

SchedDeliveries ==
    [id : {"e1"}, weightKg : {3}, route : Routes, priority : PriorityInputs]

\* a delivery over 85 km, more than 5/6 of the longest range of the fleet
FarDeliveries ==
    [id : {"e1"}, weightKg : {3}, route : {[pickup |-> 0, dropoff |-> 850000]},
     priority : PriorityInputs]

InitSched ==
    /\ \E db0 \in WithDrones({EmptyDB}, MaxFleet), d \in SchedDeliveries \cup FarDeliveries :
          LET db == CreateDelivery(db0, d).db
          IN  /\ drones = db.drones
              /\ deliveries = db.deliveries
              /\ flights = db.flights
              /\ flightHistory = db.flightHistory
              /\ nextOrderNumber = db.nextOrderNumber
    /\ now = 1
    /\ obstacles \in ObstacleLists
    /\ inflight = <<>>
    /\ served = <<>>
    /\ boot = EmptyDB

NextSched == \E id \in {"e1"} : Respond(ScheduleFlight(DB, id, now))

SpecSched == InitSched /\ [][NextSched]_vars

(***************************************************************************)
(* The simulation clock beside the flight requests: registries with a      *)
(* fleet and one delivery, on which flights are scheduled, advanced and    *)
(* cancelled while the clock fires.  The clock is a timer of the server    *)
(* process: while it has a drone to recharge it fires again.               *)
(***************************************************************************)
ClockBatteries == {0, 90, 150}          \* 0 is falsy: POST /drones stores 100

ClockBodies ==
    [id : FleetIds, model : ModelInputs, maxWeightKg : {10},
     maxRangeKm : {100}, batteryPercent : ClockBatteries]

RECURSIVE WithFleet(_, _)
WithFleet(dbs, n) ==
    IF n = 0 THEN dbs
    ELSE dbs \cup WithFleet({CreateDrone(db, d).db : db \in dbs, d \in ClockBodies}, n - 1)

InitClock ==
    /\ \E db0 \in WithFleet({EmptyDB}, MaxFleet), d \in SchedDeliveries :
          LET db == CreateDelivery(db0, d).db
          IN  /\ drones = db.drones
              /\ deliveries = db.deliveries
              /\ flights = db.flights
              /\ flightHistory = db.flightHistory
              /\ nextOrderNumber = db.nextOrderNumber
    /\ now = 1
    /\ obstacles = <<>>
    /\ inflight = <<>>
    /\ served = <<>>
    /\ boot = EmptyDB

DoRechargeTick ==
    /\ drones' = Recharge(drones, flights)
    /\ UNCHANGED <<deliveries, flights, flightHistory, nextOrderNumber, now, obstacles>>
    /\ UNCHANGED <<inflight, served, boot>>

NextClock ==
    \/ DoRechargeTick
    \/ DoScheduleFlight
    \/ DoAdvanceFlight
    \/ DoUpdateFlight
    \/ Tick

SpecClock == InitClock /\ [][NextClock]_vars /\ WF_vars(DoRechargeTick)

(***************************************************************************)
(* Concurrent requests.  Express hands each received request to its        *)
(* handler as one turn of Node's event loop; the handlers of index.js hold *)
(* no await and no callback between readDB() and writeDB(), so a turn      *)
(* reads db.json as the turn before left it.  Requests that clients send   *)
(* at the same time are in flight together and are handled in any order.   *)
(***************************************************************************)
RequestOps == {"scheduleFlight", "cancelDelivery"}

\* a read of db.json taken when the request was received
ReadDBOnReceipt(req, db) == req.seen

\* readDB() inside the handler's turn
ReadDB(req, db) == db

\* the route of the request
Serve(db, req, t) ==
    IF req.op = "scheduleFlight" THEN ScheduleFlight(db, req.id, t)
    ELSE CancelDelivery(db, req.id, t)

InitLoop ==
    /\ \E db0 \in WithFleet({EmptyDB}, MaxFleet), d \in SchedDeliveries :
          LET db == CreateDelivery(db0, d).db
          IN  /\ drones = db.drones
              /\ deliveries = db.deliveries
              /\ flights = db.flights
              /\ flightHistory = db.flightHistory
              /\ nextOrderNumber = db.nextOrderNumber
              /\ boot = db
    /\ now = 1
    /\ obstacles = <<>>
    /\ inflight = <<>>
    /\ served = <<>>

\* a request reaches the server; seen is the registry at that moment
Receive ==
    /\ Len(inflight) + Len(served) < MaxRequests
    /\ \E op \in RequestOps, id \in {"e1"} :
          inflight' = Append(inflight, [op |-> op, id |-> id, seen |-> DB])
    /\ UNCHANGED <<drones, deliveries, flights, flightHistory, nextOrderNumber,
                   now, obstacles, served, boot>>

\* one turn of the event loop: the handler of a request in flight runs from
\* readDB() to its reply
Handle ==
    \E n \in 1..Len(inflight) :
        LET req == inflight[n]
            r == Serve(ReadDB(req, DB), req, now)
        IN  /\ drones' = r.db.drones
            /\ deliveries' = r.db.deliveries
            /\ flights' = r.db.flights
            /\ flightHistory' = r.db.flightHistory
            /\ nextOrderNumber' = r.db.nextOrderNumber
            /\ inflight' = RemoveAt(inflight, n)
            /\ served' = Append(served, [op |-> req.op, id |-> req.id, seen |-> req.seen,
                                         t |-> now, res |-> r.res])
            /\ UNCHANGED <<now, obstacles, boot>>

NextLoop ==
    \/ Receive
    \/ Handle
    \/ Tick

SpecLoop == InitLoop /\ [][NextLoop]_vars

(***************************************************************************)
(* Startup seen alone: db.json as earlier versions of the server, or an    *)
(* editor, may have left it, with flights that carry an order number, a    *)
(* display id, both or neither, and a counter that is absent, stale or     *)
(* ahead; and the migration that runs on it before app.listen.             *)
(***************************************************************************)
StoredNumbers == {NoNumber, 1, 2, 4}
StoredCounters == {NoNumber, 1, 3}

\* f as a document may hold it
Stored(f) ==
    { [f EXCEPT !.orderNumber = n, !.displayId = d] :
        n \in StoredNumbers, d \in {<<>>, DisplayId(7)} }

\* the lists of at most n elements of S
RECURSIVE ListsOf(_, _)
ListsOf(S, n) ==
    IF n = 0 THEN {<<>>}
    ELSE ListsOf(S, n - 1) \cup {Append(l, x) : l \in ListsOf(S, n - 1), x \in S}

BootDocs ==
    { [UnnumberedDoc EXCEPT !.flights = fs, !.flightHistory = hs, !.nextOrderNumber = n] :
        fs \in ListsOf(Stored(UnnumberedDoc.flights[1]), MaxStored),
        hs \in ListsOf(Stored(UnnumberedDoc.flightHistory[1]), 1),
        n \in StoredCounters }

InitBoot ==
    /\ \E doc \in BootDocs :
          /\ drones = doc.drones
          /\ deliveries = doc.deliveries
          /\ flights = doc.flights
          /\ flightHistory = doc.flightHistory
          /\ nextOrderNumber = doc.nextOrderNumber
          /\ boot = doc
    /\ now = 1
    /\ obstacles = <<>>
    /\ inflight = <<>>
    /\ served = <<>>

\* node index.js: the migration, then writeDB(db0)
Startup ==
    LET db0 == Migrate(DB)
    IN  /\ drones' = db0.drones
        /\ deliveries' = db0.deliveries
        /\ flights' = db0.flights
        /\ flightHistory' = db0.flightHistory
        /\ nextOrderNumber' = db0.nextOrderNumber
        /\ UNCHANGED <<now, obstacles, inflight, served, boot>>

NextBoot == Startup

SpecBoot == InitBoot /\ [][NextBoot]_vars

(***************************************************************************)
(* Properties.  The handlers are functions of the registry, so a property  *)
(* of one request is stated for every request of the model on every        *)
(* reachable registry: P(DB, Handler(DB, input)).                          *)
(***************************************************************************)
Last(s) == s[Len(s)]
SetStatusBody(st) == << <<"status", st>> >>
OrderNumbers(fs) == [i \in 1..Len(fs) |-> fs[i].orderNumber]

\* the status changes a request makes to the deliveries it keeps in place
DeliveryChanges(r) ==
    IF Len(r.db.deliveries) < Len(deliveries) THEN {}
    ELSE { <<deliveries[i].status, r.db.deliveries[i].status>> :
             i \in {j \in 1..Len(deliveries) :
                      deliveries[j].status # r.db.deliveries[j].status} }

\* the status changes a request makes to the flights it keeps in place
FlightChanges(r) ==
    IF Len(r.db.flights) < Len(flights) THEN {}
    ELSE { <<flights[i].status, r.db.flights[i].status>> :
             i \in {j \in 1..Len(flights) : flights[j].status # r.db.flights[j].status} }

\* C1: scheduling a flight and then removing it, cancelling its delivery or
\* setting it to cancelled returns the drone's batteryPercent to the value it
\* had before the schedule (debit and credit are exactly reversible).  Stated
\* for the plain case: no other flight of the active collection has the id of
\* the new flight or references its delivery.
C1_DebitCreditReversible ==
    \A id \in DeliveryIds :
        LET r == ScheduleFlight(DB, id, now)
            f == Last(r.db.flights)
            k == IndexById(drones, f.droneId)
            undone == { RemoveFlight(r.db, f.id, now).db,
                        CancelDelivery(r.db, f.deliveryId, now).db,
                        UpdateFlight(r.db, f.id, SetStatusBody("cancelled")).db }
        IN  ( /\ r.res.status = 201
              /\ IndexById(flights, f.id) = 0
              /\ IndexByDelivery(flights, id) = 0 ) =>
              /\ r.db.drones[k].batteryPercent
                    = drones[k].batteryPercent - f.requiredBattery
              /\ \A u \in undone : u.drones[k].batteryPercent = drones[k].batteryPercent

\* C2 (as claimed): a delivery's status changes only pending -> in_transit ->
\* delivered, or from pending or in_transit to cancelled.
C2_OnlyForwardTransitions ==
    \A r \in Outcomes :
        DeliveryChanges(r) \subseteq
            { <<"pending", "in_transit">>, <<"in_transit", "delivered">>,
              <<"pending", "cancelled">>, <<"in_transit", "cancelled">> }

\* C2 (amended): a delivery's status changes only pending -> in_transit
\* (scheduleFlight), in_transit -> pending (removeFlight, removeDrone, a flight
\* set to cancelled), from pending, in_transit or delivered to cancelled
\* (cancelDelivery), and from pending, in_transit or cancelled to delivered (a
\* flight completed); a delivered or cancelled delivery never returns to
\* pending or in_transit.
C2_DeliveryTransitions ==
    \A r \in Outcomes :
        DeliveryChanges(r) \subseteq
            { <<"pending", "in_transit">>, <<"in_transit", "pending">>,
              <<"pending", "cancelled">>, <<"in_transit", "cancelled">>,
              <<"delivered", "cancelled">>,
              <<"pending", "delivered">>, <<"in_transit", "delivered">>,
              <<"cancelled", "delivered">> }

\* a delivered or cancelled delivery that a flight of the active collection
\* still references: removing or cancelling that flight reaches the revert
C2_Witness ==
    \E i \in 1..Len(deliveries) :
        /\ deliveries[i].status \in {"delivered", "cancelled"}
        /\ IndexById(deliveries, deliveries[i].id) = i
        /\ IndexByDelivery(flights, deliveries[i].id) # 0

\* C3: no delivery is referenced by more than one flight of the active
\* flights collection.
C3_OneActiveFlightPerDelivery ==
    \A i, j \in 1..Len(flights) :
        i # j => flights[i].deliveryId # flights[j].deliveryId

\* C4 (as claimed): updateFlight and advanceFlight change a flight's status
\* only scheduled -> in_progress -> completed or from scheduled or in_progress
\* to cancelled; completed and cancelled are terminal.
C4_TerminalStatuses ==
    \A r \in UpdateFlightOutcomes \cup AdvanceFlightOutcomes :
        FlightChanges(r) \subseteq
            { <<"scheduled", "in_progress">>, <<"in_progress", "completed">>,
              <<"scheduled", "cancelled">>, <<"in_progress", "cancelled">> }

\* C4 (amended): advanceFlight changes a flight's status only scheduled ->
\* in_progress or in_progress -> completed, and no request other than
\* advanceFlight and updateFlight changes the status of a flight it keeps;
\* updateFlight sets any of the four valid statuses on a flight in any status
\* (completed and cancelled included) and never stores another value.
C4_FlightStatusChanges ==
    /\ \A i \in 1..Len(flights) : flights[i].status \in ValidStatus
    /\ \A r \in AdvanceFlightOutcomes :
          FlightChanges(r) \subseteq
              { <<"scheduled", "in_progress">>, <<"in_progress", "completed">> }
    /\ \A r \in UpdateFlightOutcomes : FlightChanges(r) \subseteq ValidStatus \X ValidStatus
    /\ \A r \in Outcomes \ (AdvanceFlightOutcomes \cup UpdateFlightOutcomes) :
          FlightChanges(r) = {}

\* a flight of the active collection that is completed or cancelled
C4_Witness ==
    \E i \in 1..Len(flights) :
        /\ flights[i].status \in {"completed", "cancelled"}
        /\ IndexById(flights, flights[i].id) = i

\* the delivery a request names, and what its route asks of a drone
DeliveryOf(id) == deliveries[IndexById(deliveries, id)]
Distance(id) == haversineKm(DeliveryOf(id).pickup, DeliveryOf(id).dropoff)
IsPending(id) ==
    IndexById(deliveries, id) # 0 /\ DeliveryOf(id).status = "pending"
HasCapacity(i, id) == drones[i].maxWeightKg >= DeliveryOf(id).weightKg
InRange(i, id) == Distance(id) <= drones[i].maxRangeKm * DistScale
Needs(i, id) == RequiredBattery(Distance(id), drones[i].maxRangeKm)
Fit(id) == { i \in 1..Len(drones) :
               HasCapacity(i, id) /\ InRange(i, id) /\ drones[i].batteryPercent >= Needs(i, id) }

\* C5: the drone of a successful scheduleFlight has the capacity, the range
\* and the battery for the delivery in the state before the call; when no
\* drone has the capacity the reply is "No drone can carry this weight", and
\* when some drone has it but none of them has range and battery the reply is
\* "No feasible drone available (range/battery)".
C5_ChosenDroneIsFeasible ==
    \A id \in DeliveryIds :
        LET r == ScheduleFlight(DB, id, now)
            f == Last(r.db.flights)
            Carriers == { i \in 1..Len(drones) : HasCapacity(i, id) }
        IN  IsPending(id) =>
              /\ r.res.status = 201 =>
                    \E i \in 1..Len(drones) :
                        /\ drones[i].id = f.droneId
                        /\ drones[i].maxWeightKg >= DeliveryOf(id).weightKg
                        /\ InRange(i, id)
                        /\ f.requiredBattery = Needs(i, id)
                        /\ drones[i].batteryPercent >= f.requiredBattery
              /\ Carriers = {} =>
                    r.res = Reply("scheduleFlight", 400, "No drone can carry this weight")
              /\ (Carriers # {} /\ Fit(id) = {}) =>
                    r.res = Reply("scheduleFlight", 400,
                                  "No feasible drone available (range/battery)")

\* a flight was scheduled on the second drone of a fleet whose first drone
\* could not take the delivery
C5_Witness ==
    /\ Len(flights) = 1 /\ Len(drones) = 2
    /\ drones[1].id # drones[2].id
    /\ flights[1].droneId = drones[2].id
    /\ LET id == flights[1].deliveryId
       IN  ~HasCapacity(1, id) \/ ~InRange(1, id) \/ drones[1].batteryPercent < Needs(1, id)

\* C6: scheduleFlight assigns the feasible drone with the largest
\* batteryPercent - requiredBattery, and among several with that residual the
\* first one of the drone list.
C6_LargestResidualFirstInList ==
    \A id \in DeliveryIds :
        LET r == ScheduleFlight(DB, id, now)
            f == Last(r.db.flights)
            Left(i) == drones[i].batteryPercent - Needs(i, id)
            Best == { i \in Fit(id) : \A j \in Fit(id) : Left(j) <= Left(i) }
            first == CHOOSE i \in Best : \A j \in Best : i <= j
        IN  (IsPending(id) /\ r.res.status = 201) =>
              /\ Best # {}
              /\ f.droneId = drones[first].id
              /\ f.requiredBattery = Needs(first, id)

\* after the flight, the debited first drone holds exactly the residual the
\* second, equally feasible drone would have been left with: a tie, decided
\* for the first of the list
C6_Witness ==
    /\ Len(flights) = 1 /\ Len(drones) = 2
    /\ drones[1].id # drones[2].id
    /\ flights[1].droneId = drones[1].id
    /\ LET id == flights[1].deliveryId
       IN  /\ 2 \in Fit(id)
           /\ drones[2].batteryPercent - Needs(2, id) = drones[1].batteryPercent

\* C7: scheduleFlight with a deliveryId succeeds only for a delivery that
\* exists and is pending; for an unknown id the reply is 404 "Delivery not
\* found", for a delivery in another status 400 "Delivery not pending", and in
\* both cases drones, deliveries, flights, flightHistory and nextOrderNumber
\* are unchanged.
C7_OnlyPendingDeliveriesAreScheduled ==
    \A id \in DeliveryIdInputs :
        LET r == ScheduleFlight(DB, id, now)
            Known == { i \in 1..Len(deliveries) : deliveries[i].id = id }
            di == CHOOSE i \in Known : \A j \in Known : i <= j
        IN  /\ Known = {} =>
                  /\ r.res = Reply("scheduleFlight", 404, "Delivery not found")
                  /\ r.db = DB
            /\ (Known # {} /\ deliveries[di].status # "pending") =>
                  /\ r.res = Reply("scheduleFlight", 400, "Delivery not pending")
                  /\ r.db = DB
            /\ r.res.status = 201 => (Known # {} /\ deliveries[di].status = "pending")

\* a delivery that has left pending while a drone could fly it: the request
\* is refused for the status alone
C7_Witness ==
    \E id \in DeliveryIds :
        /\ IndexById(deliveries, id) # 0
        /\ DeliveryOf(id).status \in {"in_transit", "delivered", "cancelled"}
        /\ Fit(id) # {}
        /\ ScheduleFlight(DB, id, now).res.error = "Delivery not pending"

\* C8: a scheduleFlight that fails for want of a drone ("No drone can carry
\* this weight", "No feasible drone available (range/battery)") leaves every
\* drone's batteryPercent, the delivery (still pending), flights, flightHistory
\* and nextOrderNumber as they were.
C8_InfeasibleLeavesRegistry ==
    \A id \in DeliveryIdInputs :
        LET r == ScheduleFlight(DB, id, now)
        IN  r.res.error \in {"No drone can carry this weight",
                             "No feasible drone available (range/battery)"} =>
              /\ r.res.status = 400
              /\ r.db = DB
              /\ IsPending(id)
              /\ Fit(id) = {}

\* a pending delivery and a registered drone that cannot fly it
C8_Witness ==
    \E id \in DeliveryIds :
        /\ IsPending(id)
        /\ drones # <<>>
        /\ \E i \in 1..Len(drones) : HasCapacity(i, id)
        /\ ScheduleFlight(DB, id, now).res.error
              = "No feasible drone available (range/battery)"

\* C9: a successful scheduleFlight appends exactly one flight, with status
\* scheduled, the deliveryId of the request, the droneId of the chosen drone
\* (the first of the feasible drones with the largest residual) and that
\* drone's requiredBattery, sets the delivery to in_transit and debits the
\* chosen drone, all in the one write of the request.
C9_ScheduleIsOneCommit ==
    \A id \in DeliveryIds :
        LET r == ScheduleFlight(DB, id, now)
            f == Last(r.db.flights)
            di == IndexById(deliveries, id)
            Left(i) == drones[i].batteryPercent - Needs(i, id)
            chosen == CHOOSE i \in Fit(id) :
                          /\ \A j \in Fit(id) : Left(j) <= Left(i)
                          /\ \A j \in Fit(id) : j < i => Left(j) < Left(i)
        IN  (IsPending(id) /\ r.res.status = 201) =>
              /\ r.db.flights = Append(flights, f)
              /\ f.status = "scheduled" /\ f.deliveryId = id
              /\ f.droneId = drones[chosen].id
              /\ f.requiredBattery = Needs(chosen, id)
              /\ r.db.deliveries = [deliveries EXCEPT ![di].status = "in_transit"]
              /\ r.db.drones =
                    [drones EXCEPT ![chosen].batteryPercent = @ - f.requiredBattery]

\* the flights of both collections, and their creation times (the id of a
\* flight is the time of its creation)
Created == [i \in 1..Len(flights) |-> flights[i].id]
             \o [i \in 1..Len(flightHistory) |-> flightHistory[i].id]
Numbers == OrderNumbers(flights) \o OrderNumbers(flightHistory)

\* C10 (as claimed): of any two flights of flights and flightHistory the one
\* created later has the larger orderNumber, and nextOrderNumber is greater
\* than the orderNumber of every flight.
C10_LaterCreatedLargerNumber ==
    /\ \A i \in 1..Len(Numbers) : Numbers[i] < nextOrderNumber
    /\ \A i, j \in 1..Len(Numbers) : Created[i] < Created[j] => Numbers[i] < Numbers[j]

\* C10 (amended): no two flights of flights and flightHistory share an
\* orderNumber, nextOrderNumber is greater than all of them, and a successful
\* scheduleFlight gives its flight the orderNumber nextOrderNumber, greater than
\* that of every flight present, and moves the counter past it; the numbers
\* the startup migration hands out follow the order of the lists (flights,
\* then flightHistory), not the order of creation.
C10_OrderNumbersNeverReused ==
    /\ \A i \in 1..Len(Numbers) : Numbers[i] < nextOrderNumber
    /\ \A i, j \in 1..Len(Numbers) : i # j => Numbers[i] # Numbers[j]
    /\ \A r \in ScheduleFlightOutcomes :
          r.res.status = 201 =>
            /\ Last(r.db.flights).orderNumber = nextOrderNumber
            /\ \A i \in 1..Len(Numbers) : Numbers[i] < Last(r.db.flights).orderNumber
            /\ Last(r.db.flights).orderNumber < r.db.nextOrderNumber

\* two flights were created, one of them archived since
C10_Witness ==
    /\ flightHistory # <<>>
    /\ flights # <<>>
    /\ flightHistory[1].orderNumber < flights[1].orderNumber

\* the flights of the active collection that an id denotes (the first with it)
Denoted == { i \in 1..Len(flights) : IndexById(flights, flights[i].id) = i }

\* C11: advanceFlight moves a scheduled flight to in_progress, and with a
\* second call to completed, after which the flight's delivery is delivered;
\* a third call, and any call on a flight that is neither scheduled nor
\* in_progress, replies InvalidTransition and changes nothing.
C11_AdvanceTwiceThenRefused ==
    \A i \in Denoted :
        LET id == flights[i].id
            di == IndexById(deliveries, flights[i].deliveryId)
            a1 == AdvanceFlight(DB, id)
            a2 == AdvanceFlight(a1.db, id)
            a3 == AdvanceFlight(a2.db, id)
            Refused(a, db) == a.res = Reply("advanceFlight", 400, "InvalidTransition")
                              /\ a.db = db
        IN  /\ flights[i].status = "scheduled" =>
                /\ a1.res.status = 200
                /\ a1.db = [DB EXCEPT !.flights[i].status = "in_progress"]
                /\ a2.res.status = 200
                /\ a2.db.flights = [flights EXCEPT ![i].status = "completed"]
                /\ di # 0 => a2.db.deliveries = [deliveries EXCEPT ![di].status = "delivered"]
                /\ a2.db.drones = drones /\ a2.db.flightHistory = flightHistory
                /\ Refused(a3, a2.db)
            /\ flights[i].status \in {"completed", "cancelled"} => Refused(a1, DB)

\* a flight that two calls completed: its delivery is delivered and a further
\* call is refused
C11_Witness ==
    \E i \in Denoted :
        /\ flights[i].status = "completed"
        /\ flights[i].id = 2
        /\ IndexById(deliveries, flights[i].deliveryId) # 0
        /\ DeliveryOf(flights[i].deliveryId).status = "delivered"
        /\ AdvanceFlight(DB, flights[i].id).res.error = "InvalidTransition"

\* the sort weight of a priority tier: high 3, medium 2, normal and low 1
PriorityWeight(p) == IF p = "high" THEN 3 ELSE IF p = "medium" THEN 2 ELSE 1

\* the head of the pending queue: highest weight, and the earliest created
\* (the first of the list) among those
QueueHead ==
    LET Pending == { i \in 1..Len(deliveries) : deliveries[i].status = "pending" }
        Weight(i) == PriorityWeight(deliveries[i].priority)
    IN  CHOOSE i \in Pending :
            /\ \A j \in Pending : Weight(j) <= Weight(i)
            /\ \A j \in Pending : j < i => Weight(j) < Weight(i)

\* C12: scheduleFlight without a deliveryId creates the flight for the head of
\* the pending queue (highest priority weight, earliest created first) when a
\* drone can fly that delivery.
C12_AutomaticPickByPriority ==
    LET r == ScheduleFlight(DB, NoValue, now)
        head == deliveries[QueueHead]
    IN  ( /\ \E i \in 1..Len(deliveries) : deliveries[i].status = "pending"
          /\ IndexById(deliveries, head.id) = QueueHead
          /\ Fit(head.id) # {} ) =>
            /\ r.res.status = 201
            /\ Last(r.db.flights).deliveryId = head.id

\* the spec's segmentIntersectsCircle for the points of one meridian: the
\* distance from the centre to the segment is at most the radius
SegmentIntersectsCircle(pickup, dropoff, o) ==
    LET lo == Min(pickup, dropoff)
        hi == Max(pickup, dropoff)
        away == IF o.lat < lo THEN lo - o.lat ELSE IF o.lat > hi THEN o.lat - hi ELSE 0
    IN  away <= o.radiusKm * DistScale

Blocked(id) ==
    \E k \in 1..Len(obstacles) :
        SegmentIntersectsCircle(DeliveryOf(id).pickup, DeliveryOf(id).dropoff, obstacles[k])

\* C13: when the segment from a delivery's pickup to its dropoff passes within
\* radiusKm of the centre of an obstacle of the registry, scheduleFlight for
\* that delivery fails and creates no flight, whether or not a drone is
\* feasible.
C13_BlockedRouteIsRefused ==
    \A id \in DeliveryIds :
        LET r == ScheduleFlight(DB, id, now)
        IN  (IsPending(id) /\ Blocked(id)) =>
              /\ r.res.status = 400
              /\ r.db.flights = flights

\* h is flight f as archived at time t for the given reason
IsArchiveOf(h, f, t, why) ==
    /\ h.id = f.id /\ h.deliveryId = f.deliveryId /\ h.droneId = f.droneId
    /\ h.status = f.status /\ h.requiredBattery = f.requiredBattery
    /\ h.distanceKm = f.distanceKm /\ h.scheduledAt = f.scheduledAt
    /\ h.orderNumber = f.orderNumber /\ h.displayId = f.displayId
    /\ h.removedAt = t
    /\ h.removedReason[1] = why

\* C14: removeDrone(id) on a registered drone removes the drone, moves every
\* active flight whose droneId is id to flightHistory with removedAt and a
\* removedReason that starts with drone-deleted, reverts to pending every
\* in_transit delivery of such a flight, and leaves no active flight with
\* droneId id.
C14_RemoveDroneArchivesItsFlights ==
    \A id \in DroneIds :
        LET r == RemoveDrone(DB, id, now)
            k == IndexById(drones, id)
            Gone == { i \in 1..Len(flights) : flights[i].droneId = id }
            Reverted == { j \in 1..Len(deliveries) :
                            /\ deliveries[j].status = "in_transit"
                            /\ IndexById(deliveries, deliveries[j].id) = j
                            /\ \E i \in Gone : flights[i].deliveryId = deliveries[j].id }
            added == SubSeq(r.db.flightHistory, Len(flightHistory) + 1,
                            Len(r.db.flightHistory))
        IN  k # 0 =>
              /\ r.res.status = 200
              /\ r.db.drones = [j \in 1..(Len(drones) - 1) |->
                                   IF j < k THEN drones[j] ELSE drones[j + 1]]
              /\ \A j \in 1..Len(r.db.flights) : r.db.flights[j].droneId # id
              /\ Len(r.db.flights) = Len(flights) - Cardinality(Gone)
              /\ \A i \in 1..Len(flights) :
                    i \notin Gone => \E j \in 1..Len(r.db.flights) : r.db.flights[j] = flights[i]
              /\ SubSeq(r.db.flightHistory, 1, Len(flightHistory)) = flightHistory
              /\ Len(added) = Cardinality(Gone)
              /\ \A i \in Gone :
                    \E j \in 1..Len(added) :
                        /\ IsArchiveOf(added[j], flights[i], now, "drone-deleted")
                        /\ added[j].removedReason[2] = id
              /\ r.db.deliveries =
                    [j \in 1..Len(deliveries) |->
                        IF j \in Reverted THEN [deliveries[j] EXCEPT !.status = "pending"]
                        ELSE deliveries[j]]

\* a drone was removed while it had a flight of an in_transit delivery: the
\* flight is in the history, the delivery pending again
C14_Witness ==
    /\ drones = <<>>
    /\ \E h \in 1..Len(flightHistory) :
          /\ flightHistory[h].removedReason[1] = "drone-deleted"
          /\ flightHistory[h].status = "scheduled"
          /\ IndexById(deliveries, flightHistory[h].deliveryId) # 0
          /\ DeliveryOf(flightHistory[h].deliveryId).status = "pending"

\* drs with the battery of the first drone called droneId raised by
\* requiredBattery, to 100 at most
Credited(drs, droneId, requiredBattery) ==
    [k \in 1..Len(drs) |->
        IF drs[k].id = droneId /\ \A j \in 1..(k - 1) : drs[j].id # droneId
        THEN [drs[k] EXCEPT !.batteryPercent =
                 IF @ + requiredBattery > 100 THEN 100 ELSE @ + requiredBattery]
        ELSE drs[k]]

\* C15: cancelDelivery(id) on a delivery that is not cancelled sets it to
\* cancelled; if an active flight references the delivery, that flight leaves
\* the active collection for flightHistory with a removedReason that begins
\* delivery-cancelled and its drone is credited requiredBattery, capped at 100;
\* afterwards no active flight references the delivery.
C15_CancelDeliveryArchivesFlight ==
    \A id \in DeliveryIds :
        LET r == CancelDelivery(DB, id, now)
            di == IndexById(deliveries, id)
            Of == { i \in 1..Len(flights) : flights[i].deliveryId = id }
            fi == CHOOSE i \in Of : \A j \in Of : i <= j
        IN  (di # 0 /\ deliveries[di].status # "cancelled") =>
              /\ r.res.status = 200
              /\ r.db.deliveries = [deliveries EXCEPT ![di].status = "cancelled"]
              /\ Of = {} => /\ r.db.flights = flights
                            /\ r.db.flightHistory = flightHistory
                            /\ r.db.drones = drones
              /\ Of # {} =>
                    /\ Len(r.db.flightHistory) = Len(flightHistory) + 1
                    /\ SubSeq(r.db.flightHistory, 1, Len(flightHistory)) = flightHistory
                    /\ IsArchiveOf(Last(r.db.flightHistory), flights[fi], now,
                                   "delivery-cancelled")
                    /\ r.db.drones = Credited(drones, flights[fi].droneId,
                                              flights[fi].requiredBattery)
              /\ \A j \in 1..Len(r.db.flights) : r.db.flights[j].deliveryId # id

\* dels with the first delivery called deliveryId back to pending if it was
\* in_transit
Released(dels, deliveryId) ==
    [j \in 1..Len(dels) |->
        IF /\ dels[j].id = deliveryId /\ \A i \in 1..(j - 1) : dels[i].id # deliveryId
           /\ dels[j].status = "in_transit"
        THEN [dels[j] EXCEPT !.status = "pending"]
        ELSE dels[j]]

\* C16: removeFlight(id) on an existing flight never changes the flight's
\* status: it takes the flight out of the active collection, appends it as it
\* was to flightHistory with removedReason manual-delete:<id>, credits its drone
\* requiredBattery capped at 100, and reverts its delivery to pending if and
\* only if the delivery was in_transit.
C16_RemoveFlightArchives ==
    \A i \in Denoted :
        LET f == flights[i]
            r == RemoveFlight(DB, f.id, now)
        IN  /\ r.res.status = 200
            /\ r.db.flights = [j \in 1..(Len(flights) - 1) |->
                                  IF j < i THEN flights[j] ELSE flights[j + 1]]
            /\ Len(r.db.flightHistory) = Len(flightHistory) + 1
            /\ SubSeq(r.db.flightHistory, 1, Len(flightHistory)) = flightHistory
            /\ IsArchiveOf(Last(r.db.flightHistory), f, now, "manual-delete")
            /\ Last(r.db.flightHistory).removedReason[2] = f.id
            /\ r.db.drones = Credited(drones, f.droneId, f.requiredBattery)
            /\ r.db.deliveries = Released(deliveries, f.deliveryId)
            /\ r.db.nextOrderNumber = nextOrderNumber

\* a completed flight was removed by hand: it is archived as completed and
\* its delivery stays delivered
C16_Witness ==
    \E h \in 1..Len(flightHistory) :
        /\ flightHistory[h].removedReason[1] = "manual-delete"
        /\ flightHistory[h].removedAt >= 1
        /\ flightHistory[h].status = "completed"
        /\ IndexById(deliveries, flightHistory[h].deliveryId) # 0
        /\ DeliveryOf(flightHistory[h].deliveryId).status = "delivered"

\* C17: updateFlight(id, status=cancelled) on a flight that is not cancelled
\* credits the flight's drone requiredBattery capped at 100 and reverts the
\* flight's delivery to pending if it was in_transit; on a flight that is
\* already cancelled it credits nothing and changes no delivery.
C17_CancelByUpdateCreditsOnce ==
    \A i \in Denoted :
        LET f == flights[i]
            r == UpdateFlight(DB, f.id, SetStatusBody("cancelled"))
        IN  /\ r.res.status = 200
            /\ r.db.flights = [flights EXCEPT ![i].status = "cancelled"]
            /\ r.db.flightHistory = flightHistory
            /\ f.status # "cancelled" =>
                  /\ r.db.drones = Credited(drones, f.droneId, f.requiredBattery)
                  /\ r.db.deliveries = Released(deliveries, f.deliveryId)
            /\ f.status = "cancelled" =>
                  /\ r.db.drones = drones
                  /\ r.db.deliveries = deliveries

\* a cancelled flight of the active collection whose delivery is in_transit
\* again and whose drone is below 100: a second cancel must leave both
C17_Witness ==
    \E i \in Denoted :
        /\ flights[i].status = "cancelled"
        /\ IndexById(deliveries, flights[i].deliveryId) # 0
        /\ DeliveryOf(flights[i].deliveryId).status = "in_transit"
        /\ \E k \in 1..Len(drones) :
              drones[k].id = flights[i].droneId /\ drones[k].batteryPercent < 100

\* C18: in every reachable state every drone's batteryPercent lies in 0..100.
C18_BatteryWithinBounds ==
    \A k \in 1..Len(drones) :
        drones[k].batteryPercent >= 0 /\ drones[k].batteryPercent <= 100

ActiveOf(id) == { i \in 1..Len(flights) : flights[i].deliveryId = id }
ArchivedOf(id) == { h \in 1..Len(flightHistory) : flightHistory[h].deliveryId = id }

\* C20 (as claimed): a delivery that is in_transit or delivered has exactly
\* one flight, counting flights and flightHistory together.
C20_ExactlyOneFlight ==
    \A j \in 1..Len(deliveries) :
        deliveries[j].status \in {"in_transit", "delivered"} =>
            Cardinality(ActiveOf(deliveries[j].id))
              + Cardinality(ArchivedOf(deliveries[j].id)) = 1

\* C20 (amended): a delivery that is in_transit or delivered has at least one
\* flight, counting flights and flightHistory together, and an in_transit
\* delivery has at least one in the active collection; it has more than one
\* once it was scheduled again after its flight was removed or cancelled.
C20_AtLeastOneFlight ==
    \A j \in 1..Len(deliveries) :
        /\ deliveries[j].status \in {"in_transit", "delivered"} =>
              ActiveOf(deliveries[j].id) \cup ArchivedOf(deliveries[j].id) # {}
        /\ deliveries[j].status = "in_transit" => ActiveOf(deliveries[j].id) # {}

\* a delivery scheduled again after its first flight was removed: in_transit
\* with one archived and one active flight
C20_Witness ==
    \E j \in 1..Len(deliveries) :
        /\ deliveries[j].status = "in_transit"
        /\ Cardinality(ActiveOf(deliveries[j].id)) = 1
        /\ \E h \in ArchivedOf(deliveries[j].id) :
              flightHistory[h].removedReason[1] = "manual-delete"
              /\ flightHistory[h].removedAt >= 1

\* C21: removeDelivery removes the delivery exactly when it is pending and no
\* flight of the active collection references it; a delivery in another
\* status is refused as not pending, a pending one with an active flight is
\* refused for that flight, and both refusals leave the registry as it was.
C21_RemoveDeliveryGuards ==
    \A id \in DeliveryIdInputs :
        LET r == RemoveDelivery(DB, id)
            idx == IndexById(deliveries, id)
        IN  idx # 0 =>
              /\ deliveries[idx].status # "pending" =>
                    /\ r.res.status = 400
                    /\ r.res.error = "Only pending deliveries can be removed"
                    /\ r.db = DB
              /\ (deliveries[idx].status = "pending" /\ ActiveOf(id) # {}) =>
                    /\ r.res.status = 400
                    /\ r.res.error = "Cannot remove delivery with active flight"
                    /\ r.db = DB
              /\ (deliveries[idx].status = "pending" /\ ActiveOf(id) = {}) =>
                    /\ r.res.status = 200
                    /\ r.db = [DB EXCEPT !.deliveries = RemoveAt(deliveries, idx)]

\* a pending delivery that a flight of the active collection still references
\* (its flight was cancelled by updateFlight and stays in flights)
C21_Witness ==
    \E j \in 1..Len(deliveries) :
        /\ deliveries[j].status = "pending"
        /\ ActiveOf(deliveries[j].id) # {}
        /\ RemoveDelivery(DB, deliveries[j].id).res.status = 400

\* the fields of a delivery that updateDelivery may write
Cargo(d) == <<d.id, d.weightKg, d.pickup, d.dropoff, d.priority>>

\* C22: updateDelivery changes a delivery only while it is pending; on a
\* delivery in another status it is refused as not pending and writes
\* nothing, and no other request changes the weight, pickup, dropoff or
\* priority of a delivery that is not pending.
C22_OnlyPendingIsEdited ==
    /\ \A id \in DeliveryIdInputs : \A body \in DeliveryUpdateBodies :
          LET r == UpdateDelivery(DB, id, body)
              idx == IndexById(deliveries, id)
          IN  idx # 0 =>
                /\ deliveries[idx].status # "pending" =>
                      /\ r.res.status = 400
                      /\ r.res.error = "Only pending deliveries can be edited"
                      /\ r.db = DB
                /\ deliveries[idx].status = "pending" =>
                      /\ r.res.status = 200
                      /\ r.db.deliveries[idx].status = "pending"
                      /\ r.db.deliveries[idx].id = id
    /\ \A r \in Outcomes : \A j \in 1..Len(deliveries) :
          deliveries[j].status # "pending" =>
              \E k \in 1..Len(r.db.deliveries) :
                  /\ k \in {j, j - 1}
                  /\ Cargo(r.db.deliveries[k]) = Cargo(deliveries[j])

\* a delivery that has left pending and whose weight the request would change
C22_Witness ==
    \E j \in 1..Len(deliveries) : \E body \in DeliveryUpdateBodies :
        /\ deliveries[j].status \in {"in_transit", "delivered", "cancelled"}
        /\ ApplyAllowed(deliveries[j], body, {"weightKg"}) # deliveries[j]
        /\ UpdateDelivery(DB, deliveries[j].id, body).res.status = 400

\* C23: cancelDelivery on a delivery that is already cancelled is refused as
\* already cancelled and leaves the registry as it was: no flight is
\* archived, no battery is credited and the delivery stays cancelled.
C23_CancelTwiceIsRefused ==
    \A id \in DeliveryIdInputs :
        LET r == CancelDelivery(DB, id, now)
            di == IndexById(deliveries, id)
        IN  (di # 0 /\ deliveries[di].status = "cancelled") =>
              /\ r.res.status = 400
              /\ r.res.error = "Delivery already cancelled"
              /\ r.db = DB

\* a cancelled delivery that a flight of the active collection still
\* references, its drone registered: a second cancel would have a flight to
\* archive and a drone to credit
C23_Witness ==
    \E j \in 1..Len(deliveries) :
        /\ deliveries[j].status = "cancelled"
        /\ \E i \in ActiveOf(deliveries[j].id) :
              /\ IndexById(drones, flights[i].droneId) # 0
              /\ flights[i].requiredBattery > 0
        /\ CancelDelivery(DB, deliveries[j].id, now).res.status = 400

\* C24: updateFlight with status completed sets the flight's status to
\* completed and the status of the flight's delivery to delivered, and
\* changes nothing else of the registry.
C24_CompletedMarksDelivered ==
    \A i \in Denoted :
        LET f == flights[i]
            r == UpdateFlight(DB, f.id, SetStatusBody("completed"))
            deli == IndexById(deliveries, f.deliveryId)
        IN  /\ r.res.status = 200
            /\ r.db.flights = [flights EXCEPT ![i].status = "completed"]
            /\ r.db.deliveries =
                  IF deli = 0 THEN deliveries
                  ELSE [deliveries EXCEPT ![deli].status = "delivered"]
            /\ r.db.drones = drones
            /\ r.db.flightHistory = flightHistory
            /\ r.db.nextOrderNumber = nextOrderNumber

\* a flight of the present hour that was completed, its delivery delivered
C24_Witness ==
    \E i \in Denoted :
        /\ flights[i].status = "completed"
        /\ flights[i].scheduledAt = now
        /\ IndexById(deliveries, flights[i].deliveryId) # 0
        /\ DeliveryOf(flights[i].deliveryId).status = "delivered"

\* the request names a status outside the four flight statuses
HasInvalidStatus(body) ==
    \E n \in 1..Len(body) : body[n][1] = "status" /\ body[n][2] \notin ValidStatus

\* the request carries a scheduledAt other than the flight's
MovesSchedule(body, f) ==
    \E n \in 1..Len(body) : body[n][1] = "scheduledAt" /\ body[n][2] # f.scheduledAt

\* C25: updateFlight with a status outside scheduled, in_progress, completed,
\* cancelled is refused as an invalid status and nothing of it is stored: the
\* flight, its scheduledAt included even when the same request carries a new
\* one, every drone and every delivery stay as they were.
C25_InvalidStatusWritesNothing ==
    \A i \in Denoted : \A body \in FlightUpdateBodies :
        LET r == UpdateFlight(DB, flights[i].id, body)
        IN  HasInvalidStatus(body) =>
              /\ r.res.status = 400
              /\ r.res.error = "Invalid status"
              /\ r.db = DB

\* a flight created by a request, whose scheduledAt the refused request
\* would have moved
C25_Witness ==
    \E i \in Denoted : \E body \in FlightUpdateBodies :
        /\ flights[i].id = 2
        /\ HasInvalidStatus(body)
        /\ MovesSchedule(body, flights[i])
        /\ body[1][1] = "scheduledAt"
        /\ UpdateFlight(DB, flights[i].id, body).res.status = 400

\* no element of the list carries the id
Unknown(s, id) == \A i \in 1..Len(s) : s[i].id # id

\* a reply of 404 that wrote nothing
NotFound(r) == r.res.status = 404 /\ r.db = DB

\* C26: updateDrone, removeDrone, updateDelivery, removeDelivery,
\* cancelDelivery, updateFlight and removeFlight, given an id that no element
\* carries, reply not found and leave drones, deliveries, flights, the flight
\* history and nextOrderNumber as they were.
C26_UnknownIdIsNotFound ==
    /\ \A id \in DroneIdInputs : Unknown(drones, id) =>
          /\ \A body \in DroneUpdateBodies : NotFound(UpdateDrone(DB, id, body))
          /\ NotFound(RemoveDrone(DB, id, now))
    /\ \A id \in DeliveryIdInputs : Unknown(deliveries, id) =>
          /\ \A body \in DeliveryUpdateBodies : NotFound(UpdateDelivery(DB, id, body))
          /\ NotFound(RemoveDelivery(DB, id))
          /\ NotFound(CancelDelivery(DB, id, now))
    /\ \A id \in FlightIdInputs : Unknown(flights, id) =>
          /\ \A body \in FlightUpdateBodies : NotFound(UpdateFlight(DB, id, body))
          /\ NotFound(RemoveFlight(DB, id, now))

\* a registry with a drone, a delivery, a flight that a request scheduled and
\* a flight in the history, none of them carrying the id of the request
C26_Witness ==
    /\ drones # <<>> /\ Unknown(drones, UnknownId)
    /\ deliveries # <<>> /\ Unknown(deliveries, UnknownId)
    /\ flights # <<>> /\ Unknown(flights, UnknownFlight)
    /\ flightHistory # <<>>
    /\ \E i \in 1..Len(flights) : flights[i].scheduledAt = 2
    /\ NotFound(RemoveDrone(DB, UnknownId, now))
    /\ NotFound(CancelDelivery(DB, UnknownId, now))
    /\ NotFound(RemoveFlight(DB, UnknownFlight, now))

\* C27: createDelivery accepts a delivery only if its weightKg is above zero:
\* a request with a zero or negative weightKg is refused and adds no
\* delivery, and an accepted delivery starts as pending.
C27_WeightMustBePositive ==
    \A d \in DeliveryBodies :
        LET r == CreateDelivery(DB, d)
        IN  /\ d.weightKg <= 0 => (r.res.status = 400 /\ r.db = DB)
            /\ r.res.status = 201 =>
                  /\ d.weightKg > 0
                  /\ Len(r.db.deliveries) = Len(deliveries) + 1
                  /\ Last(r.db.deliveries).status = "pending"

\* C28: createDrone with an id that is already registered is refused and
\* adds nothing, so the ids of the registered drones are pairwise distinct.
C28_DroneIdsDistinct ==
    /\ \A d \in DroneBodies :
          (d.id # NoValue /\ ~Unknown(drones, d.id)) =>
              LET r == CreateDrone(DB, d)
              IN  r.res.status # 201 /\ r.db = DB
    /\ \A i, j \in 1..Len(drones) : drones[i].id = drones[j].id => i = j

\* C29: each firing of the clock raises the battery of every idle drone
\* below 100 by the step of 5, never past 100, and leaves every other drone
\* as it was; under repeated firings an idle drone below 100 reaches 100
\* unless a flight is scheduled on it first.
C29_TickRecharges ==
    \A i \in 1..Len(drones) :
        LET d == drones[i]
            after == Recharge(drones, flights)[i]
        IN  /\ Len(Recharge(drones, flights)) = Len(drones)
            /\ (DroneIdle(flights, d.id) /\ d.batteryPercent < 100) =>
                  /\ after.batteryPercent = Min(100, d.batteryPercent + 5)
                  /\ after.batteryPercent > d.batteryPercent
                  /\ after.batteryPercent <= 100
                  /\ after = [d EXCEPT !.batteryPercent = after.batteryPercent]
            /\ ~(DroneIdle(flights, d.id) /\ d.batteryPercent < 100) => after = d

Recharging(i) ==
    /\ i <= Len(drones)
    /\ DroneIdle(flights, drones[i].id)
    /\ drones[i].batteryPercent < 100

Recharged(i) ==
    /\ i <= Len(drones)
    /\ (drones[i].batteryPercent = 100 \/ ~DroneIdle(flights, drones[i].id))

C29_IdleDronesRecharge ==
    /\ []C29_TickRecharges
    /\ \A i \in 1..MaxFleet : Recharging(i) ~> Recharged(i)

\* a single drone registered at 100, debited to 87 by its flight, idle again
\* once the flight was completed, and raised by one firing of the clock
C29_Witness ==
    /\ Len(drones) = 1
    /\ drones[1].batteryPercent = 87 + RechargeStep
    /\ DroneIdle(flights, drones[1].id)
    /\ \E i \in 1..Len(flights) :
          flights[i].status = "completed" /\ flights[i].droneId = drones[1].id

\* the requests one at a time, in the given order, from registry db: the
\* registry they leave and whether each got the reply it got when served
RECURSIVE Serial(_, _)
Serial(db, reqs) ==
    IF reqs = <<>> THEN [db |-> db, same |-> TRUE]
    ELSE LET r == Serve(db, Head(reqs), Head(reqs).t)
             rest == Serial(r.db, Tail(reqs))
         IN  [db |-> rest.db, same |-> rest.same /\ r.res = Head(reqs).res]

Orders(n) == { p \in [1..n -> 1..n] : \A i, j \in 1..n : p[i] = p[j] => i = j }

InOrder(s, p) == [i \in 1..Len(s) |-> s[p[i]]]

\* both requests schedule the same delivery and both were received while it
\* was pending in the registry
ConcurrentSchedules(a, b) ==
    /\ a.op = "scheduleFlight" /\ b.op = "scheduleFlight" /\ a.id = b.id
    /\ \A q \in {a, b} :
          LET di == IndexById(q.seen.deliveries, q.id)
          IN  di # 0 /\ q.seen.deliveries[di].status = "pending"

\* C30: requests are serialized: whatever the order in which requests in
\* flight together are handled, the registry and the replies are those of
\* the same requests run one at a time in some order; of two concurrent
\* scheduleFlight requests for one pending delivery at most one creates a
\* flight, debiting one drone once, and the other is refused because the
\* delivery is no longer pending.
C30_RequestsAreSerialized ==
    /\ \E p \in Orders(Len(served)) :
          LET run == Serial(boot, InOrder(served, p))
          IN  run.same /\ run.db = DB
    /\ \A a, b \in 1..Len(served) :
          (a < b /\ ConcurrentSchedules(served[a], served[b])
                 /\ served[a].res.status = 201) =>
              /\ served[b].res.status = 400
              /\ served[b].res.error = "Delivery not pending"
    /\ (Len(served) = 2 /\ ConcurrentSchedules(served[1], served[2])
                        /\ served[1].res.status = 201) =>
          /\ Len(flights) = Len(boot.flights) + 1
          /\ nextOrderNumber = boot.nextOrderNumber + 1
          /\ LET f == Last(flights)
                 dri == IndexById(boot.drones, f.droneId)
             IN  drones = [boot.drones EXCEPT
                              ![dri].batteryPercent = Debit(@, f.requiredBattery)]

\* two scheduleFlight requests for the pending delivery, in flight together
\* and both handled: one created the flight, the other was refused
C30_Witness ==
    /\ Len(served) = 2
    /\ ConcurrentSchedules(served[1], served[2])
    /\ served[1].seen = served[2].seen
    /\ served[1].res.status = 201
    /\ served[2].res.status = 400
    /\ Len(flights) = 1

\* n is Math.min(100, Math.ceil(dist * 1.2 * 100 / range)): the least whole
\* number of hundredths of the range that covers 1.2 times the distance, or
\* 100 when that number is 100 or more
IsRequiredBattery(n, dist, maxRangeKm) ==
    LET need == dist * 120
        unit == maxRangeKm * DistScale
    IN  /\ n \in 0..100
        /\ n < 100 => n * unit >= need
        /\ n > 0 => (n - 1) * unit < need

\* C31: the requiredBattery of a new flight is min(100, ceil(distanceKm /
\* maxRangeKm * 100 * 1.2)) for the chosen drone; it lies in 0..100, it is
\* 100 for every distance above 5/6 of the drone's maxRangeKm, and such a
\* flight is given only to a drone whose batteryPercent is 100.
C31_RequiredBatteryFormula ==
    \A id \in DeliveryIds :
        LET r == ScheduleFlight(DB, id, now)
            f == Last(r.db.flights)
        IN  (IsPending(id) /\ r.res.status = 201) =>
              \E i \in Fit(id) :
                  /\ drones[i].id = f.droneId
                  /\ IsRequiredBattery(f.requiredBattery, Distance(id), drones[i].maxRangeKm)
                  /\ 6 * Distance(id) > 5 * drones[i].maxRangeKm * DistScale =>
                        /\ f.requiredBattery = 100
                        /\ drones[i].batteryPercent = 100

\* C32: the startup migration accepts a document without nextOrderNumber or
\* flightHistory; after it nextOrderNumber is defined and above every
\* orderNumber of flights and flightHistory, every flight of both has an
\* orderNumber and a displayId, the orderNumbers that were present are kept,
\* and the new ones differ from each other and from the kept ones.
C32_MigrationNumbersEveryFlight ==
    LET m == Migrate(DB)
        before == flights \o flightHistory
        after == m.flights \o m.flightHistory
    IN  /\ m.nextOrderNumber # NoNumber
        /\ Len(m.flights) = Len(flights)
        /\ Len(m.flightHistory) = Len(flightHistory)
        /\ \A k \in 1..Len(after) :
              /\ after[k].orderNumber # NoNumber
              /\ after[k].orderNumber >= 1
              /\ after[k].displayId # <<>>
              /\ m.nextOrderNumber > after[k].orderNumber
              /\ before[k].orderNumber # NoNumber =>
                    after[k].orderNumber = before[k].orderNumber
              /\ before[k].orderNumber = NoNumber =>
                    /\ after[k].displayId = DisplayId(after[k].orderNumber)
                    /\ \A l \in 1..Len(after) :
                          l # k => after[l].orderNumber # after[k].orderNumber
              /\ after[k] = [before[k] EXCEPT !.orderNumber = after[k].orderNumber,
                                              !.displayId = after[k].displayId]
        /\ m.drones = drones /\ m.deliveries = deliveries

\* a document that had no counter, a flight numbered 4 and two flights
\* without a number, after the migration gave them 5 and 6
C32_Witness ==
    /\ boot.nextOrderNumber = NoNumber
    /\ DB = Migrate(boot)
    /\ \E k \in 1..Len(boot.flights) : boot.flights[k].orderNumber = 4
    /\ \E k \in 1..Len(boot.flights) :
          boot.flights[k].orderNumber = NoNumber /\ flights[k].orderNumber = 5
    /\ Len(flightHistory) = 1
    /\ boot.flightHistory[1].orderNumber = NoNumber
    /\ flightHistory[1].orderNumber = 6
    /\ nextOrderNumber = 7

\* The value a request body gives to key k, dflt when the body has no such key.
ValueOf(body, k, dflt) ==
    IF \E n \in 1..Len(body) : body[n][1] = k
    THEN body[CHOOSE n \in 1..Len(body) : body[n][1] = k][2]
    ELSE dflt

\* C33: updateDrone(id, partial) on a registered drone answers 200 and changes
\* only model, maxWeightKg, maxRangeKm and batteryPercent of the named drone,
\* each to the value the body gives it (left alone when the body has no such
\* key); the id key of the body is ignored, and every other drone, every
\* delivery, every flight, the flight history and nextOrderNumber stay as
\* they were.
C33_UpdateDroneFrame ==
    \A id \in DroneIdInputs, body \in DroneUpdateBodies :
        LET r == UpdateDrone(DB, id, body)
            i == IndexById(drones, id)
        IN  i # 0 =>
              /\ r.res.status = 200
              /\ r.db = [DB EXCEPT !.drones[i] =
                    [@ EXCEPT !.model = ValueOf(body, "model", @),
                              !.maxWeightKg = ValueOf(body, "maxWeightKg", @),
                              !.maxRangeKm = ValueOf(body, "maxRangeKm", @),
                              !.batteryPercent = ValueOf(body, "batteryPercent", @)]]
              /\ r.db.drones[i].id = id

\* A drone debited by a flight is updated with a body that carries an id key
\* and a new battery.
C33_Witness ==
    \E id \in DroneIdInputs, body \in DroneUpdateBodies :
        LET i == IndexById(drones, id)
        IN  /\ i # 0
            /\ \E k \in 1..Len(flights) :
                  flights[k].scheduledAt = 2 /\ flights[k].droneId = id
            /\ ValueOf(body, "id", id) # id
            /\ ValueOf(body, "batteryPercent", drones[i].batteryPercent)
                 # drones[i].batteryPercent
            /\ UpdateDrone(DB, id, body).db # DB

\* C34: at every reachable registry, every active flight whose status is
\* scheduled or in_progress belongs to a delivery whose status is in_transit.
C34_LiveFlightMeansInTransit ==
    \A i \in 1..Len(flights) :
        flights[i].status \in {"scheduled", "in_progress"} =>
            \E j \in 1..Len(deliveries) :
                /\ deliveries[j].id = flights[i].deliveryId
                /\ deliveries[j].status = "in_transit"

\* C35: the requiredBattery of a flight is credited to its drone at most once
\* and never for a completed flight: once a flight is cancelled (the cancel
\* credited it) or completed, neither updateFlight to cancelled, nor
\* removeFlight, nor cancelDelivery of its delivery changes the battery of
\* any drone.
C35_CreditedAtMostOnce ==
    \A i \in 1..Len(flights) :
        flights[i].status \in {"cancelled", "completed"} =>
            /\ UpdateFlight(DB, flights[i].id, SetStatusBody("cancelled")).db.drones = drones
            /\ RemoveFlight(DB, flights[i].id, now).db.drones = drones
            /\ CancelDelivery(DB, flights[i].deliveryId, now).db.drones = drones

\* C36: at every reachable registry, every active flight references a
\* delivery id present in deliveries and a drone id present in drones.
C36_ReferentialIntegrity ==
    \A i \in 1..Len(flights) :
        /\ \E j \in 1..Len(deliveries) : deliveries[j].id = flights[i].deliveryId
        /\ \E k \in 1..Len(drones) : drones[k].id = flights[i].droneId

\* A flight scheduled by a request is active after a drone was removed and
\* its flights archived, and removeDelivery of the flight's delivery is
\* refused.
C36_Witness ==
    /\ \E h \in 1..Len(flightHistory) :
          flightHistory[h].removedReason[1] = "drone-deleted"
    /\ \E i \in 1..Len(flights) :
          /\ flights[i].scheduledAt >= 2
          /\ RemoveDelivery(DB, flights[i].deliveryId).res.status = 400
          /\ RemoveDelivery(DB, flights[i].deliveryId).db = DB

\* C37: a successful scheduleFlight debits a drone that covers the flight:
\* the drone named by the new flight had batteryPercent >= requiredBattery
\* and is left with exactly batteryPercent - requiredBattery, no other drone
\* changing.
C37_DebitNeverHitsFloor ==
    \A id \in DeliveryIds :
        LET r == ScheduleFlight(DB, id, now)
            f == Last(r.db.flights)
        IN  r.res.status = 201 =>
              \E i \in 1..Len(drones) :
                  /\ drones[i].id = f.droneId
                  /\ drones[i].batteryPercent >= f.requiredBattery
                  /\ r.db.drones =
                        [drones EXCEPT ![i].batteryPercent = @ - f.requiredBattery]

\* C38: a successful scheduleFlight changes only the batteryPercent of the
\* chosen drone (the first of the feasible drones with the largest residual),
\* the status of the scheduled delivery, flights (one flight appended) and
\* nextOrderNumber (one more); every other drone and delivery, the flights
\* already there and flightHistory stay as they were, and no other request
\* changes nextOrderNumber.
C38_ScheduleFrame ==
    /\ \A id \in DeliveryIds :
          LET r == ScheduleFlight(DB, id, now)
              di == IndexById(deliveries, id)
              Left(i) == drones[i].batteryPercent - Needs(i, id)
              chosen == CHOOSE i \in Fit(id) :
                            /\ \A j \in Fit(id) : Left(j) <= Left(i)
                            /\ \A j \in Fit(id) : j < i => Left(j) < Left(i)
          IN  r.res.status = 201 =>
                /\ Len(r.db.drones) = Len(drones)
                /\ r.db.drones = [drones EXCEPT ![chosen].batteryPercent =
                                      r.db.drones[chosen].batteryPercent]
                /\ Len(r.db.deliveries) = Len(deliveries)
                /\ r.db.deliveries = [deliveries EXCEPT ![di].status =
                                          r.db.deliveries[di].status]
                /\ Len(r.db.flights) = Len(flights) + 1
                /\ SubSeq(r.db.flights, 1, Len(flights)) = flights
                /\ r.db.flightHistory = flightHistory
                /\ r.db.nextOrderNumber = nextOrderNumber + 1
    /\ \A r \in Outcomes :
          ~(r.res.op = "scheduleFlight" /\ r.res.status = 201) =>
              r.db.nextOrderNumber = nextOrderNumber

\* C39: removeFlight, removeDrone and updateFlight to cancelled change no
\* delivery except to turn an in_transit delivery to pending: a delivery that
\* is delivered, cancelled or pending keeps its status, and no delivery is
\* added, dropped or otherwise edited.
C39_RevertOnlyInTransit ==
    \A r \in RemoveFlightOutcomes \cup RemoveDroneOutcomes
              \cup {UpdateFlight(DB, id, SetStatusBody("cancelled")) : id \in FlightIdInputs} :
        /\ Len(r.db.deliveries) = Len(deliveries)
        /\ \A j \in 1..Len(deliveries) :
              \/ r.db.deliveries[j] = deliveries[j]
              \/ /\ deliveries[j].status = "in_transit"
                 /\ r.db.deliveries[j] = [deliveries[j] EXCEPT !.status = "pending"]

\* A delivered or cancelled delivery has an active flight scheduled by a
\* request, and the flight is removed, its drone deleted and the flight
\* cancelled, each with success.
C39_Witness ==
    \E i \in 1..Len(flights), j \in 1..Len(deliveries) :
        /\ flights[i].scheduledAt >= 2
        /\ deliveries[j].id = flights[i].deliveryId
        /\ deliveries[j].status \in {"delivered", "cancelled"}
        /\ flights[i].status # "cancelled"
        /\ RemoveFlight(DB, flights[i].id, now).res.status = 200
        /\ RemoveDrone(DB, flights[i].droneId, now).res.status = 200
        /\ UpdateFlight(DB, flights[i].id, SetStatusBody("cancelled")).res.status = 200
        /\ RemoveFlight(DB, flights[i].id, now).db.deliveries = deliveries

====
